---- MODULE Spec2Model ----
(***************************************************************************)
(* LightGUI: window / widget lifecycle, the process-wide registry and the  *)
(* event pump, modelled from src/lightgui.c, platform/linux.c (X11) and    *)
(* platform/windows.c (Win32).                                             *)
(*                                                                         *)
(* Handles are heap addresses.  A handle is a positive integer, NULL is 0. *)
(* malloc hands out addresses in increasing order and the content of a     *)
(* block is kept after free(), so a dangling handle still designates the   *)
(* stale record; every access to a block that is not allocated is recorded *)
(* in fault (undefined behaviour: the call then either carries on with the *)
(* stale content or the process stops).                                    *)
(***************************************************************************)
EXTENDS Integers, Sequences, FiniteSets, TLC

NULL == 0

\* Bounds of the exploration: successful Create* calls, LG_Initialize calls and
\* native events a run may have.
MaxNewWindows == 2
MaxNewWidgets == 2
MaxInitialize == 1
MaxEvents == 2

\* src/lightgui.c:58 and src/lightgui.c:128
WINDOW_LIST_CAPACITY == 10
WIDGET_LIST_CAPACITY == 20

LG_WIDGET_BUTTON == "BUTTON"
LG_WIDGET_LABEL == "LABEL"
LG_WIDGET_TEXTFIELD == "TEXTFIELD"

LG_COLOR_BLACK == "BLACK"
LG_COLOR_WHITE == "WHITE"
LG_COLOR_RED == "RED"
LG_COLOR_TRANSPARENT == "TRANSPARENT"

\* The rectangle the application asks the widget constructors for.
WidgetRect == [x |-> 1, y |-> 2, width |-> 7, height |-> 5]

\* Text arguments a caller passes (NoText is a null char pointer).
NoText == "<null>"
Texts == {"OK"}

VARIABLES
    g_initialized,  \* lightgui.c: static bool g_initialized
    g_event_loop_running,  \* lightgui.c: static bool g_event_loop_running
    g_display,      \* linux.c: g_display # NULL
    g_windows,      \* lightgui.c: LG_WindowList g_windows
    window,         \* heap: struct LG_Window by address (content kept after free)
    widget,         \* heap: struct LG_Widget by address (content kept after free)
    alloc,          \* blocks and X resources currently allocated: <<kind, id>>
    xwindows,       \* X server: live native windows as <<xid, parent xid>>
    xqueue,         \* Xlib: native events queued on the display connection
    fault,          \* undefined behaviour / X protocol errors raised so far
    handles,        \* handles the calls have returned to the application
    budget,         \* successful Create* / Initialize calls and native events left
    pump,           \* LG_PlatformProcessEvents: position, locals of the loop body
    platform,       \* the backend compiled in: "linux" (__linux__) or "win32" (_WIN32)
    win32,          \* windows.c: g_window_class, and the HWNDs and message queue of the thread
    run             \* LG_Run: position, the local `running`, the index of the render loop

vars == <<g_initialized, g_event_loop_running, g_display, g_windows, window, widget, alloc, xwindows,
          xqueue, fault, handles, budget, pump, platform, win32, run>>

(***************************************************************************)
(* The toolkit state as one record, threaded through the operators that    *)
(* model the C functions.                                                  *)
(***************************************************************************)
State == [g_initialized |-> g_initialized,
          g_event_loop_running |-> g_event_loop_running, g_display |-> g_display,
          g_windows |-> g_windows, window |-> window, widget |-> widget,
          alloc |-> alloc, xwindows |-> xwindows, xqueue |-> xqueue, fault |-> fault,
          platform |-> platform, win32 |-> win32]

\* An access (read or write) to a heap block: undefined if the block is not allocated.
Touch(H, blk) ==
    IF blk \in H.alloc THEN H ELSE [H EXCEPT !.fault = @ \cup {"use_after_free"}]

Malloc(H, blk) == [H EXCEPT !.alloc = @ \cup {blk}]

\* free(p) for p # NULL
Free(H, blk) ==
    IF blk \in H.alloc THEN [H EXCEPT !.alloc = @ \ {blk}]
    ELSE [H EXCEPT !.fault = @ \cup {"double_free"}]

\* Blocks and X resources are named after the window they were created for.
WindowResourceKinds == {"title", "widgets", "WindowData", "GC", "Font", "Pixmap"}

\* free() of the struct a failing constructor has just allocated: no handle to
\* it was ever returned, and the next malloc gets the same address again.  A
\* resource the constructor left behind keeps its name, so the name is not
\* given to the next window.
FreeNewWindow(H, w) ==
    LET F == Free(H, <<"Window", w>>)
    IN IF \E k \in WindowResourceKinds : <<k, w>> \in F.alloc
       THEN F
       ELSE [F EXCEPT !.window = SubSeq(@, 1, w - 1)]

FreeNewWidget(H, d) == [Free(H, <<"Widget", d>>) EXCEPT !.widget = SubSeq(@, 1, d - 1)]

Max(S) == CHOOSE x \in S : \A y \in S : y <= x

SeqToSet(s) == {s[i] : i \in 1..Len(s)}

\* Index (1-based) of the first occurrence of x in s, 0 if there is none:
\* the linear scans `for (i = 0; i < count; i++) if (a[i] == x)`.
FirstIndex(s, x) ==
    IF \E i \in 1..Len(s) : s[i] = x
    THEN CHOOSE i \in 1..Len(s) : s[i] = x /\ \A j \in 1..(i - 1) : s[j] # x
    ELSE 0

\* a[i] = a[--count]
SwapRemoveAt(s, i) ==
    IF i = Len(s) THEN SubSeq(s, 1, Len(s) - 1)
    ELSE SubSeq(s, 1, i - 1) \o <<s[Len(s)]>> \o SubSeq(s, i + 1, Len(s) - 1)

\* The scan-and-remove loops of LG_DestroyWindow / LG_DestroyWidget.
SwapRemove(s, x) ==
    IF FirstIndex(s, x) = 0 THEN s ELSE SwapRemoveAt(s, FirstIndex(s, x))

(***************************************************************************)
(* Native controls.  The attributes of the native sub-window or control of *)
(* a widget are kept with the widget: its rectangle, whether it is shown,  *)
(* whether it is enabled (X11: takes button input, which every sub-window  *)
(* selects at creation), and the non-empty texts to be seen in it.         *)
(***************************************************************************)
NoNative ==
    [rect |-> [x |-> 0, y |-> 0, width |-> 0, height |-> 0], shown |-> FALSE,
     enabled |-> FALSE, texts |-> {}]

\* What a string puts on the screen: nothing for the empty and the null string.
Glyphs(text) == IF text \in {"", NoText} THEN {} ELSE {text}

\* static void DrawWidget(widget): a button and a text field are filled with
\* the background colour before the text is drawn, a label only if its
\* background is not transparent (bg_color.a > 0).
DrawWidget(H, d) ==
    IF H.widget[d].platform_data = NULL \/ H.widget[d].window = NULL THEN H
    ELSE LET w  == H.widget[d].window
             H0 == Touch(H, <<"Window", w>>) IN
    IF H0.window[w].platform_data = NULL THEN H0
    ELSE LET H1 == Touch(Touch(H0, <<"WidgetData", d>>), <<"WindowData", w>>)
             H2 == IF H1.widget[d].text = NoText THEN H1 ELSE Touch(H1, <<"text", d>>)
             filled == \/ H.widget[d].type # LG_WIDGET_LABEL
                       \/ H.widget[d].bg_color # LG_COLOR_TRANSPARENT
         IN [H2 EXCEPT !.widget[d].native.texts =
                           (IF filled THEN {} ELSE @) \cup Glyphs(H.widget[d].text)]

(***************************************************************************)
(* X server                                                                *)
(***************************************************************************)
\* The id of the next native window: one that no struct of the toolkit holds.
NextXid(H) ==
    1 + Max({0} \cup {H.window[i].data.window : i \in 1..Len(H.window)}
                \cup {H.widget[i].data.window : i \in 1..Len(H.widget)})

\* XCreateWindow: a new native window under parent (0 is the root window).
XCreateWindow(H, parent) ==
    [H EXCEPT !.xwindows = @ \cup {<<NextXid(H), parent>>}]

\* XDestroyWindow destroys the window and its sub-windows; BadWindow if it is gone.
XDestroyWindow(H, xid) ==
    IF \E c \in H.xwindows : c[1] = xid
    THEN [H EXCEPT !.xwindows = {c \in @ : c[1] # xid /\ c[2] # xid}]
    ELSE [H EXCEPT !.fault = @ \cup {"BadWindow"}]

\* XFreeGC, XFreePixmap, XFreeFont on a server resource.
XFree(H, res) ==
    IF res \in H.alloc THEN [H EXCEPT !.alloc = @ \ {res}]
    ELSE [H EXCEPT !.fault = @ \cup {"BadResource"}]

XResourceKinds == {"GC", "Font", "Pixmap", "DefaultFont", "Display"}

\* XCloseDisplay: the server drops every resource of the connection.
XCloseDisplay(H) ==
    [H EXCEPT !.xwindows = {},
              !.xqueue = <<>>,
              !.alloc = {b \in @ : b[1] \notin XResourceKinds}]

(***************************************************************************)
(* platform/linux.c                                                        *)
(***************************************************************************)
LG_PlatformInitialize(H, fail) ==
    IF fail = "display" THEN [ret |-> FALSE, H |-> H]
    ELSE LET H1 == [Malloc(H, <<"Display", 0>>) EXCEPT !.g_display = TRUE]
         IN IF fail = "font"
            THEN [ret |-> FALSE, H |-> [XCloseDisplay(H1) EXCEPT !.g_display = FALSE]]
            ELSE [ret |-> TRUE, H |-> Malloc(H1, <<"DefaultFont", 0>>)]

LG_PlatformTerminate(H) ==
    LET H1 == IF <<"DefaultFont", 0>> \in H.alloc
              THEN XFree(H, <<"DefaultFont", 0>>) ELSE H
    IN IF H1.g_display THEN [XCloseDisplay(H1) EXCEPT !.g_display = FALSE] ELSE H1

\* fail names the step that fails; ownfont is whether XLoadQueryFont gave the
\* window a font of its own (otherwise it shares g_default_font).
LG_PlatformCreateWindow(H, w, fail, ownfont) ==
    IF w = NULL THEN [ret |-> FALSE, H |-> H]
    ELSE IF fail = "WindowData" THEN [ret |-> FALSE, H |-> H]
    ELSE LET H1 == Malloc(H, <<"WindowData", w>>) IN
    IF fail = "XCreateWindow" THEN [ret |-> FALSE, H |-> Free(H1, <<"WindowData", w>>)]
    ELSE LET xid == NextXid(H1)
             H2 == [XCreateWindow(H1, 0) EXCEPT !.window[w].data.window = xid] IN
    IF fail = "GC"
    THEN [ret |-> FALSE, H |-> Free(XDestroyWindow(H2, xid), <<"WindowData", w>>)]
    ELSE LET H3 == Malloc(H2, <<"GC", w>>)
             H4 == IF ownfont
                   THEN [Malloc(H3, <<"Font", w>>) EXCEPT !.window[w].data.font = "own"]
                   ELSE [H3 EXCEPT !.window[w].data.font = "default"] IN
    IF fail = "Pixmap"
    THEN [ret |-> FALSE,
          H |-> Free(XDestroyWindow(XFree(H4, <<"GC", w>>), xid), <<"WindowData", w>>)]
    ELSE [ret |-> TRUE,
          H |-> [Malloc(H4, <<"Pixmap", w>>) EXCEPT !.window[w].platform_data = w]]

LG_PlatformDestroyWindow(H, w) ==
    IF w = NULL \/ H.window[w].platform_data = NULL THEN H
    ELSE LET d  == H.window[w].data
             H0 == Touch(H, <<"WindowData", w>>)
             H1 == XFree(H0, <<"Pixmap", w>>)
             H2 == IF d.font # "default" THEN XFree(H1, <<"Font", w>>) ELSE H1
             H3 == XFree(H2, <<"GC", w>>)
             H4 == XDestroyWindow(H3, d.window)
             H5 == Free(H4, <<"WindowData", w>>)
         IN [H5 EXCEPT !.window[w].platform_data = NULL]

\* XMapWindow / XUnmapWindow on data->window: BadWindow if it is gone.
XMapWindow(H, xid) ==
    IF \E c \in H.xwindows : c[1] = xid THEN H
    ELSE [H EXCEPT !.fault = @ \cup {"BadWindow"}]

LG_PlatformShowWindow(H, w) ==
    IF w = NULL \/ H.window[w].platform_data = NULL THEN H
    ELSE XMapWindow(Touch(H, <<"WindowData", w>>), H.window[w].data.window)

LG_PlatformHideWindow(H, w) ==
    IF w = NULL \/ H.window[w].platform_data = NULL THEN H
    ELSE XMapWindow(Touch(H, <<"WindowData", w>>), H.window[w].data.window)

\* A drawing request naming a GC or a pixmap: an X error if it is gone.
XUse(H, res) ==
    IF res \in H.alloc THEN H ELSE [H EXCEPT !.fault = @ \cup {"BadResource"}]

\* Clears the back buffer and copies it to the native window.
LG_PlatformRenderWindow(H, w) ==
    IF w = NULL THEN H
    ELSE LET H0 == Touch(H, <<"Window", w>>) IN
    IF H0.window[w].platform_data = NULL THEN H0
    ELSE LET H1 == Touch(H0, <<"WindowData", w>>)
             H2 == XUse(XUse(H1, <<"GC", w>>), <<"Pixmap", w>>)
         IN XMapWindow(H2, H.window[w].data.window)

LG_PlatformCreateWidget(H, d, fail) ==
    IF d = NULL \/ H.widget[d].window = NULL THEN [ret |-> FALSE, H |-> H]
    ELSE LET w  == H.widget[d].window
             Hw == Touch(H, <<"Window", w>>) IN
    IF Hw.window[w].platform_data = NULL THEN [ret |-> FALSE, H |-> Hw]
    ELSE IF fail = "WidgetData" THEN [ret |-> FALSE, H |-> Hw]
    ELSE LET H0 == Touch(Hw, <<"WindowData", w>>)
             H1 == Malloc(H0, <<"WidgetData", d>>) IN
    IF fail = "XCreateWindow" THEN [ret |-> FALSE, H |-> Free(H1, <<"WidgetData", d>>)]
    ELSE LET xid == NextXid(H1)
             H2 == XCreateWindow(H1, H1.window[H1.widget[d].window].data.window)
             H3 == [H2 EXCEPT !.widget[d].data = [window |-> xid, type |-> H.widget[d].type],
                              !.widget[d].platform_data = d,
                              !.widget[d].native =
                                  [rect |-> H.widget[d].rect, shown |-> H.widget[d].visible,
                                   enabled |-> TRUE, texts |-> {}]]
         IN [ret |-> TRUE, H |-> DrawWidget(H3, d)]

\* XMoveResizeWindow, XMapWindow / XUnmapWindow and DrawWidget; BadWindow if
\* the native window is gone.
LG_PlatformUpdateWidget(H, d) ==
    IF d = NULL \/ H.widget[d].platform_data = NULL THEN H
    ELSE LET H0 == Touch(H, <<"WidgetData", d>>)
             H1 == XMapWindow(H0, H.widget[d].data.window)
             H2 == [H1 EXCEPT !.widget[d].native.rect = H.widget[d].rect,
                              !.widget[d].native.shown = H.widget[d].visible]
         IN DrawWidget(H2, d)

LG_PlatformDestroyWidget(H, d) ==
    IF d = NULL \/ H.widget[d].platform_data = NULL THEN H
    ELSE LET H0 == Touch(H, <<"WidgetData", d>>)
             H1 == XDestroyWindow(H0, H.widget[d].data.window)
             H2 == Free(H1, <<"WidgetData", d>>)
         IN [H2 EXCEPT !.widget[d].platform_data = NULL]

\* static Window GetWindowHandle(LG_WindowHandle)
GetWindowHandle(H, w) ==
    IF w = NULL \/ H.window[w].platform_data = NULL THEN 0
    ELSE H.window[w].data.window

\* static LG_WindowHandle FindWindowByHandle(Window): the first registry entry
\* whose native window is x_window, NULL if there is none.
\* FindWindowByHandle that searches every window structure ever allocated, not
\* the registry.
FindWindowByHandle_AnyStruct(H, x_window) ==
    LET hit == {w \in 1..Len(H.window) : H.window[w].data.window = x_window}
    IN IF hit = {} THEN NULL ELSE CHOOSE w \in hit : \A v \in hit : w <= v

FindWindowByHandle(H, x_window) ==
    LET hit == {i \in 1..Len(H.g_windows.windows) :
                   GetWindowHandle(H, H.g_windows.windows[i]) = x_window}
    IN IF hit = {} THEN NULL
       ELSE H.g_windows.windows[CHOOSE i \in hit : \A j \in hit : i <= j]

(***************************************************************************)
(* platform/windows.c                                                      *)
(* win32.class is g_window_class # 0, win32.registered whether the system  *)
(* has the class LightGUI_Window registered for the module,                *)
(* win32.hwnds holds the live HWNDs as <<hwnd, parent>>, win32.last the    *)
(* last HWND the system has handed out, win32.queue the posted messages    *)
(* and win32.quit whether PostQuitMessage has been called and WM_QUIT not  *)
(* yet retrieved.                                                          *)
(***************************************************************************)
\* CreateWindowExW / CreateWindowW: a new HWND under parent (0 for a top-level one).
CreateWindowEx(H, parent) ==
    [H EXCEPT !.win32.last = @ + 1,
              !.win32.hwnds = @ \cup {<<H.win32.last + 1, parent>>}]

\* The mouse and keyboard messages, and the WM_COMMAND a control sends to its
\* parent while it handles one: PeekMessage hands out the posted messages
\* first, then WM_QUIT if PostQuitMessage has been called, then the input.
InputMessages ==
    {"WM_MOUSEMOVE", "WM_LBUTTONDOWN", "WM_LBUTTONUP", "WM_RBUTTONDOWN", "WM_RBUTTONUP",
     "WM_MBUTTONDOWN", "WM_MBUTTONUP", "WM_KEYDOWN", "WM_KEYUP", "WM_COMMAND"}

IsInput(m) == m.message \in InputMessages

IsPosted(m) == ~IsInput(m)

\* The message queue of the thread is kept in the order PeekMessage hands the
\* messages out: a posted message goes in before the input that is waiting.
Enqueue(q, m) ==
    IF IsInput(m) THEN Append(q, m)
    ELSE SelectSeq(q, IsPosted) \o <<m>> \o SelectSeq(q, IsInput)

\* PeekMessage is about to hand out WM_QUIT.
QuitIsNext(H) ==
    H.win32.quit /\ (H.win32.queue = <<>> \/ IsInput(Head(H.win32.queue)))

\* DestroyWindow for a window class whose WindowProc leaves WM_DESTROY to
\* DefWindowProc: no PostQuitMessage.
DestroyWindow_Win32_NoQuit(H, hwnd) ==
    IF ~\E c \in H.win32.hwnds : c[1] = hwnd THEN H
    ELSE LET gone == {c \in H.win32.hwnds : c[1] = hwnd \/ c[2] = hwnd}
             ids  == {c[1] : c \in gone}
         IN [H EXCEPT !.win32.hwnds = @ \ gone,
                      !.win32.queue = SelectSeq(@, LAMBDA m : m.hwnd \notin ids)]

\* DestroyWindow(hwnd): fails on a handle that is not a window; otherwise the
\* window and its children go, the thread's message queue is flushed of their
\* messages, and a LightGUI_Window gets WM_DESTROY, for which WindowProc calls
\* PostQuitMessage (windows.c:331-333).
DestroyWindow_Win32(H, hwnd) ==
    IF ~\E c \in H.win32.hwnds : c[1] = hwnd THEN H
    ELSE LET gone == {c \in H.win32.hwnds : c[1] = hwnd \/ c[2] = hwnd}
             ids  == {c[1] : c \in gone}
             q    == H.win32.queue
             keep == {i \in 1..Len(q) : q[i].hwnd \notin ids}
             RECURSIVE Kept(_)
             Kept(i) == IF i > Len(q) THEN <<>>
                        ELSE IF i \in keep THEN <<q[i]>> \o Kept(i + 1)
                        ELSE Kept(i + 1)
         IN [H EXCEPT !.win32.hwnds = @ \ gone,
                      !.win32.queue = Kept(1),
                      !.win32.quit = @ \/ <<hwnd, 0>> \in gone]

\* RegisterClassExW returns 0 for a class name the module has registered
\* already; g_window_class takes what it returns.
LG_PlatformInitialize_Win32(H, fail) ==
    IF fail = "instance" THEN [ret |-> FALSE, H |-> H]
    ELSE IF fail = "class" \/ H.win32.registered
    THEN [ret |-> FALSE, H |-> [H EXCEPT !.win32.class = FALSE]]
    ELSE [ret |-> TRUE, H |-> [H EXCEPT !.win32.class = TRUE, !.win32.registered = TRUE]]

\* UnregisterClassW fails while a window of the class exists; its result is
\* not looked at and g_window_class is cleared.
LG_PlatformTerminate_Win32(H) ==
    IF ~H.win32.class THEN H
    ELSE [H EXCEPT !.win32.class = FALSE,
                   !.win32.registered = \E c \in H.win32.hwnds : c[2] = 0]

\* fail names the step that fails.
LG_PlatformCreateWindow_Win32(H, w, fail) ==
    IF w = NULL THEN [ret |-> FALSE, H |-> H]
    ELSE IF fail = "WindowData" THEN [ret |-> FALSE, H |-> H]
    ELSE LET H1 == Malloc(H, <<"WindowData", w>>) IN
    IF fail \in {"title_wide", "CreateWindowEx"}
    THEN [ret |-> FALSE, H |-> Free(H1, <<"WindowData", w>>)]
    ELSE LET H2 == CreateWindowEx(H1, 0)
             hwnd == H2.win32.last
             H3 == [H2 EXCEPT !.window[w].data = [hwnd |-> hwnd, needs_redraw |-> TRUE]] IN
    IF fail = "hdc"
    THEN [ret |-> FALSE, H |-> Free(DestroyWindow_Win32(H3, hwnd), <<"WindowData", w>>)]
    ELSE LET H4 == Malloc(H3, <<"hdc", w>>) IN
    IF fail = "memory_dc"
    THEN [ret |-> FALSE,
          H |-> Free(DestroyWindow_Win32(Free(H4, <<"hdc", w>>), hwnd),
                     <<"WindowData", w>>)]
    ELSE LET H5 == Malloc(H4, <<"memory_dc", w>>) IN
    IF fail = "bitmap"
    THEN [ret |-> FALSE,
          H |-> Free(DestroyWindow_Win32(Free(Free(H5, <<"memory_dc", w>>), <<"hdc", w>>),
                                         hwnd),
                     <<"WindowData", w>>)]
    ELSE [ret |-> TRUE,
          H |-> [Malloc(H5, <<"bitmap", w>>) EXCEPT !.window[w].platform_data = w]]

\* DeleteObject, DeleteDC and ReleaseDC fail on a handle that is gone.
LG_PlatformDestroyWindow_Win32(H, w) ==
    IF w = NULL \/ H.window[w].platform_data = NULL THEN H
    ELSE LET H0 == Touch(H, <<"WindowData", w>>)
             H1 == [H0 EXCEPT !.alloc = @ \ {<<"bitmap", w>>, <<"memory_dc", w>>,
                                              <<"hdc", w>>}]
             H2 == DestroyWindow_Win32(H1, H.window[w].data.hwnd)
             H3 == Free(H2, <<"WindowData", w>>)
         IN [H3 EXCEPT !.window[w].platform_data = NULL]

LG_PlatformCreateWidget_Win32(H, d, fail) ==
    IF d = NULL \/ H.widget[d].window = NULL THEN [ret |-> FALSE, H |-> H]
    ELSE LET w  == H.widget[d].window
             Hw == Touch(H, <<"Window", w>>) IN
    IF Hw.window[w].platform_data = NULL THEN [ret |-> FALSE, H |-> Hw]
    ELSE IF fail = "WidgetData" THEN [ret |-> FALSE, H |-> Hw]
    ELSE LET H0 == Touch(Hw, <<"WindowData", w>>)
             H1 == Malloc(H0, <<"WidgetData", d>>) IN
    IF fail \in {"text_wide", "CreateWindow"}
    THEN [ret |-> FALSE, H |-> Free(H1, <<"WidgetData", d>>)]
    ELSE LET H2 == CreateWindowEx(H1, H1.window[w].data.hwnd)
         IN [ret |-> TRUE,
             H |-> [H2 EXCEPT !.widget[d].data = [hwnd |-> H2.win32.last],
                              !.widget[d].platform_data = d,
                              !.widget[d].native =
                                  [rect |-> H.widget[d].rect, shown |-> TRUE,
                                   enabled |-> TRUE,
                                   texts |-> Glyphs(H.widget[d].text)]]]

\* SetWindowTextW (skipped for a null text and when Utf8ToWide fails),
\* SetWindowPos, ShowWindow, EnableWindow, and the colours through the
\* memory DC of the window.
LG_PlatformUpdateWidget_Win32(H, d, fail) ==
    IF d = NULL \/ H.widget[d].platform_data = NULL THEN H
    ELSE LET H0 == Touch(H, <<"WidgetData", d>>)
             H1 == IF H0.widget[d].text = NoText THEN H0
                   ELSE LET T == Touch(H0, <<"text", d>>)
                        IN IF fail = "text_wide" THEN T
                           ELSE [T EXCEPT !.widget[d].native.texts =
                                              Glyphs(H.widget[d].text)]
             H2 == [H1 EXCEPT !.widget[d].native.rect = H.widget[d].rect,
                              !.widget[d].native.shown = H.widget[d].visible,
                              !.widget[d].native.enabled = H.widget[d].enabled]
         IN IF H.widget[d].type = LG_WIDGET_TEXTFIELD THEN H2
            ELSE Touch(Touch(H2, <<"Window", H.widget[d].window>>),
                       <<"WindowData", H.widget[d].window>>)

LG_PlatformDestroyWidget_Win32(H, d) ==
    IF d = NULL \/ H.widget[d].platform_data = NULL THEN H
    ELSE LET H0 == Touch(H, <<"WidgetData", d>>)
             H1 == DestroyWindow_Win32(H0, H.widget[d].data.hwnd)
             H2 == Free(H1, <<"WidgetData", d>>)
         IN [H2 EXCEPT !.widget[d].platform_data = NULL]

\* ShowWindow(hwnd, SW_SHOW / SW_HIDE) and UpdateWindow fail on a handle that is
\* not a window.
LG_PlatformShowWindow_Win32(H, w) ==
    IF w = NULL \/ H.window[w].platform_data = NULL THEN H
    ELSE Touch(H, <<"WindowData", w>>)

LG_PlatformHideWindow_Win32(H, w) ==
    IF w = NULL \/ H.window[w].platform_data = NULL THEN H
    ELSE Touch(H, <<"WindowData", w>>)

\* Redraws only if needed, then resets needs_redraw.
LG_PlatformRenderWindow_Win32(H, w) ==
    IF w = NULL THEN H
    ELSE LET H0 == Touch(H, <<"Window", w>>) IN
    IF H0.window[w].platform_data = NULL THEN H0
    ELSE LET H1 == Touch(H0, <<"WindowData", w>>)
         IN IF H1.window[w].data.needs_redraw
            THEN [H1 EXCEPT !.window[w].data.needs_redraw = FALSE]
            ELSE H1

\* static HWND GetWindowHwnd(LG_WindowHandle)
GetWindowHwnd(H, w) ==
    IF w = NULL \/ H.window[w].platform_data = NULL THEN 0
    ELSE H.window[w].data.hwnd

\* static LG_WindowHandle FindWindowByHwnd(HWND): the first registry entry whose
\* HWND is hwnd, NULL if there is none.
FindWindowByHwnd(H, hwnd) ==
    LET hit == {i \in 1..Len(H.g_windows.windows) :
                   GetWindowHwnd(H, H.g_windows.windows[i]) = hwnd}
    IN IF hit = {} THEN NULL
       ELSE H.g_windows.windows[CHOOSE i \in hit : \A j \in hit : i <= j]

(***************************************************************************)
(* The backend linked in: lightgui.c calls the LG_Platform* functions      *)
(* declared in include/lightgui.h, defined by linux.c or by windows.c.     *)
(***************************************************************************)
PlatformInitialize(H, fail) ==
    IF H.platform = "win32" THEN LG_PlatformInitialize_Win32(H, fail)
    ELSE LG_PlatformInitialize(H, fail)

PlatformTerminate(H) ==
    IF H.platform = "win32" THEN LG_PlatformTerminate_Win32(H) ELSE LG_PlatformTerminate(H)

PlatformCreateWindow(H, w, fail, ownfont) ==
    IF H.platform = "win32" THEN LG_PlatformCreateWindow_Win32(H, w, fail)
    ELSE LG_PlatformCreateWindow(H, w, fail, ownfont)

PlatformDestroyWindow(H, w) ==
    IF H.platform = "win32" THEN LG_PlatformDestroyWindow_Win32(H, w)
    ELSE LG_PlatformDestroyWindow(H, w)

PlatformShowWindow(H, w) ==
    IF H.platform = "win32" THEN LG_PlatformShowWindow_Win32(H, w)
    ELSE LG_PlatformShowWindow(H, w)

PlatformHideWindow(H, w) ==
    IF H.platform = "win32" THEN LG_PlatformHideWindow_Win32(H, w)
    ELSE LG_PlatformHideWindow(H, w)

PlatformRenderWindow(H, w) ==
    IF H.platform = "win32" THEN LG_PlatformRenderWindow_Win32(H, w)
    ELSE LG_PlatformRenderWindow(H, w)

PlatformCreateWidget(H, d, fail) ==
    IF H.platform = "win32" THEN LG_PlatformCreateWidget_Win32(H, d, fail)
    ELSE LG_PlatformCreateWidget(H, d, fail)

PlatformDestroyWidget(H, d) ==
    IF H.platform = "win32" THEN LG_PlatformDestroyWidget_Win32(H, d)
    ELSE LG_PlatformDestroyWidget(H, d)

PlatformUpdateWidget(H, d, fail) ==
    IF H.platform = "win32" THEN LG_PlatformUpdateWidget_Win32(H, d, fail)
    ELSE LG_PlatformUpdateWidget(H, d)

(***************************************************************************)
(* src/lightgui.c                                                          *)
(***************************************************************************)
\* LG_Initialize without the test of g_initialized.
LG_Initialize_Again(H, fail) ==
    LET P == PlatformInitialize(H, fail) IN
    IF ~P.ret THEN [ret |-> FALSE, H |-> P.H]
    ELSE LET H1 == [P.H EXCEPT !.g_windows.capacity = WINDOW_LIST_CAPACITY] IN
    IF fail = "list"
    THEN [ret |-> FALSE,
          H |-> PlatformTerminate([H1 EXCEPT !.g_windows.storage = FALSE])]
    ELSE [ret |-> TRUE,
          H |-> [Malloc(H1, <<"g_windows", 0>>) EXCEPT !.g_windows.storage = TRUE,
                                                       !.g_initialized = TRUE]]

LG_Initialize(H, fail) ==
    IF H.g_initialized THEN [ret |-> TRUE, H |-> H]
    ELSE LET P == PlatformInitialize(H, fail) IN
    IF ~P.ret THEN [ret |-> FALSE, H |-> P.H]
    ELSE LET H1 == [P.H EXCEPT !.g_windows.capacity = WINDOW_LIST_CAPACITY] IN
    IF fail = "list"
    THEN [ret |-> FALSE,
          H |-> PlatformTerminate([H1 EXCEPT !.g_windows.storage = FALSE])]
    ELSE [ret |-> TRUE,
          H |-> [Malloc(H1, <<"g_windows", 0>>) EXCEPT !.g_windows.storage = TRUE,
                                                       !.g_initialized = TRUE]]

\* The width and height the application asks LG_CreateWindow for.
WindowSize == [width |-> 4, height |-> 3]

\* memset(window, 0, ...) followed by the field assignments of LG_CreateWindow.
NewWindow ==
    [width |-> WindowSize.width, height |-> WindowSize.height,
     visible |-> FALSE, widgets |-> <<>>, capacity |-> 0, event_callback |-> NULL,
     user_data |-> NULL, platform_data |-> NULL,
     data |-> [window |-> 0, font |-> "default"]]

LG_CreateWindow(H, fail, ownfont) ==
    IF ~H.g_initialized THEN [ret |-> NULL, H |-> H]
    ELSE IF fail = "window" THEN [ret |-> NULL, H |-> H]
    ELSE LET w  == Len(H.window) + 1
             H1 == [Malloc(H, <<"Window", w>>) EXCEPT !.window = Append(@, NewWindow)] IN
    IF fail = "title" THEN [ret |-> NULL, H |-> FreeNewWindow(H1, w)]
    ELSE LET H2 == [Malloc(H1, <<"title", w>>) EXCEPT
                        !.window[w].capacity = WIDGET_LIST_CAPACITY] IN
    IF fail = "widgets"
    THEN [ret |-> NULL, H |-> FreeNewWindow(Free(H2, <<"title", w>>), w)]
    ELSE LET H3 == Malloc(H2, <<"widgets", w>>)
             P  == PlatformCreateWindow(H3, w, fail, ownfont) IN
    IF ~P.ret
    THEN [ret |-> NULL,
          H |-> FreeNewWindow(Free(Free(P.H, <<"widgets", w>>), <<"title", w>>), w)]
    ELSE IF Len(P.H.g_windows.windows) >= P.H.g_windows.capacity /\ fail = "registry"
    THEN [ret |-> NULL,
          H |-> FreeNewWindow(Free(Free(PlatformDestroyWindow(P.H, w),
                    <<"widgets", w>>), <<"title", w>>), w)]
    ELSE LET H4 == IF Len(P.H.g_windows.windows) >= P.H.g_windows.capacity
                   THEN [P.H EXCEPT !.g_windows.capacity = @ * 2]
                   ELSE P.H
         IN [ret |-> w, H |-> [H4 EXCEPT !.g_windows.windows = Append(@, w)]]

\* Remove the widget from its window's collection: first match, swap with last.
RemoveWidgetFromWindow(H, w, d) ==
    LET H1 == Touch(H, <<"Window", w>>)
        H2 == IF Len(H1.window[w].widgets) > 0 THEN Touch(H1, <<"widgets", w>>) ELSE H1
    IN [H2 EXCEPT !.window[w].widgets = SwapRemove(@, d)]

LG_DestroyWidget(H, d) ==
    IF ~H.g_initialized \/ d = NULL THEN H
    ELSE LET H1 == PlatformDestroyWidget(Touch(H, <<"Widget", d>>), d)
             H2 == RemoveWidgetFromWindow(H1, H1.widget[d].window, d)
             H3 == IF H2.widget[d].text = NoText THEN H2 ELSE Free(H2, <<"text", d>>)
         IN Free(H3, <<"Widget", d>>)

\* for (i = 0; i < window->widgets.count; i++) LG_DestroyWidget(widgets[i]);
\* the count is read again on every round, i is 0-based.
RECURSIVE DestroyWidgetsLoop(_, _, _)
DestroyWidgetsLoop(H, w, i) ==
    IF i < Len(H.window[w].widgets)
    THEN LET H1 == LG_DestroyWidget(Touch(H, <<"widgets", w>>),
                                    H.window[w].widgets[i + 1])
         IN DestroyWidgetsLoop(H1, w, i + 1)
    ELSE H

\* RemoveWindowFromList with the swap forgotten: only --g_windows.count.
RemoveWindowFromList_NoSwap(H, w) ==
    [H EXCEPT !.g_windows.windows =
                  IF FirstIndex(@, w) = 0 THEN @ ELSE SubSeq(@, 1, Len(@) - 1)]

\* Remove the window from the global list: first match, swap with last.
RemoveWindowFromList(H, w) ==
    [H EXCEPT !.g_windows.windows = SwapRemove(@, w)]

\* LG_DestroyWindow that leaves the window in the registry.
LG_DestroyWindow_KeepsEntry(H, w) ==
    IF ~H.g_initialized \/ w = NULL THEN H
    ELSE LET H1 == DestroyWidgetsLoop(Touch(H, <<"Window", w>>), w, 0)
             H2 == Free(H1, <<"widgets", w>>)
             H3 == PlatformDestroyWindow(H2, w)
             H5 == Free(H3, <<"title", w>>)
         IN Free(H5, <<"Window", w>>)

LG_DestroyWindow(H, w) ==
    IF ~H.g_initialized \/ w = NULL THEN H
    ELSE LET H1 == DestroyWidgetsLoop(Touch(H, <<"Window", w>>), w, 0)
             H2 == Free(H1, <<"widgets", w>>)
             H3 == PlatformDestroyWindow(H2, w)
             H4 == RemoveWindowFromList(H3, w)
             H5 == Free(H4, <<"title", w>>)
         IN Free(H5, <<"Window", w>>)

LG_ShowWindow(H, w) ==
    IF ~H.g_initialized \/ w = NULL THEN H
    ELSE PlatformShowWindow([Touch(H, <<"Window", w>>) EXCEPT !.window[w].visible = TRUE], w)

\* LG_HideWindow that unmaps the native window and leaves the flag as it was.
LG_HideWindow_KeepsFlag(H, w) ==
    IF ~H.g_initialized \/ w = NULL THEN H
    ELSE PlatformHideWindow(Touch(H, <<"Window", w>>), w)

LG_HideWindow(H, w) ==
    IF ~H.g_initialized \/ w = NULL THEN H
    ELSE PlatformHideWindow([Touch(H, <<"Window", w>>) EXCEPT !.window[w].visible = FALSE], w)

\* for (i = 0; i < g_windows.count; i++) LG_DestroyWindow(g_windows.windows[i]);
RECURSIVE DestroyWindowsLoop(_, _)
DestroyWindowsLoop(H, i) ==
    IF i < Len(H.g_windows.windows)
    THEN LET H1 == LG_DestroyWindow(H, H.g_windows.windows[i + 1])
         IN DestroyWindowsLoop(H1, i + 1)
    ELSE H

\* LG_Terminate without the test of g_initialized (free(NULL) does nothing).
LG_Terminate_Unguarded(H) ==
    LET H1 == DestroyWindowsLoop(H, 0)
        H2 == IF H1.g_windows.storage THEN Free(H1, <<"g_windows", 0>>) ELSE H1
        H3 == [H2 EXCEPT !.g_windows = [windows |-> <<>>, capacity |-> 0,
                                        storage |-> FALSE]]
        H4 == PlatformTerminate(H3)
    IN [H4 EXCEPT !.g_initialized = FALSE]

LG_Terminate(H) ==
    IF ~H.g_initialized THEN H
    ELSE LET H1 == DestroyWindowsLoop(H, 0)
             H2 == Free(H1, <<"g_windows", 0>>)
             H3 == [H2 EXCEPT !.g_windows = [windows |-> <<>>, capacity |-> 0,
                                             storage |-> FALSE]]
             H4 == PlatformTerminate(H3)
         IN [H4 EXCEPT !.g_initialized = FALSE]

\* AddWidgetToWindow storing the widget without growing a full collection.
AddWidgetToWindow_NoGrowth(H, w, d, fail) ==
    LET full == Len(H.window[w].widgets) >= H.window[w].capacity IN
    IF full /\ fail = "realloc" THEN H
    ELSE [H EXCEPT !.window[w].widgets = Append(@, d)]

\* void AddWidgetToWindow(window, widget): a failed growth returns without adding.
AddWidgetToWindow(H, w, d, fail) ==
    LET full == Len(H.window[w].widgets) >= H.window[w].capacity IN
    IF full /\ fail = "realloc" THEN H
    ELSE LET H1 == IF full THEN [H EXCEPT !.window[w].capacity = @ * 2] ELSE H
         IN [H1 EXCEPT !.window[w].widgets = Append(@, d)]

\* The field assignments with the white background for every type of widget.
NewWidget_AllWhite(type, w) ==
    [type |-> type, window |-> w, text |-> NoText, platform_data |-> NULL,
     data |-> [window |-> 0, type |-> type],
     rect |-> WidgetRect, visible |-> TRUE, enabled |-> TRUE,
     bg_color |-> LG_COLOR_WHITE, text_color |-> LG_COLOR_BLACK,
     native |-> NoNative]

\* memset(widget, 0, ...) followed by the field assignments of LG_Create<Type>.
\* native holds the attributes of the native control, which does not exist yet.
NewWidget(type, w) ==
    [type |-> type, window |-> w, text |-> NoText, platform_data |-> NULL,
     data |-> [window |-> 0, type |-> type],
     rect |-> WidgetRect, visible |-> TRUE, enabled |-> TRUE,
     bg_color |-> IF type = LG_WIDGET_LABEL THEN LG_COLOR_TRANSPARENT ELSE LG_COLOR_WHITE,
     text_color |-> LG_COLOR_BLACK,
     native |-> NoNative]

\* LG_CreateButton, LG_CreateLabel, LG_CreateTextField: the three bodies differ
\* in the type, in the null-text test and in the colours.
LG_CreateWidget(H, type, w, text, fail) ==
    IF ~H.g_initialized \/ w = NULL \/ (text = NoText /\ type # LG_WIDGET_TEXTFIELD)
    THEN [ret |-> NULL, H |-> H]
    ELSE IF fail = "widget" THEN [ret |-> NULL, H |-> H]
    ELSE LET d  == Len(H.widget) + 1
             H1 == [Malloc(H, <<"Widget", d>>) EXCEPT
                        !.widget = Append(@, NewWidget(type, w))] IN
    IF fail = "text" THEN [ret |-> NULL, H |-> FreeNewWidget(H1, d)]
    ELSE LET H2 == [Malloc(H1, <<"text", d>>) EXCEPT
                        !.widget[d].text = IF text = NoText THEN "" ELSE text]
             P  == PlatformCreateWidget(H2, d, fail) IN
    IF ~P.ret
    THEN [ret |-> NULL, H |-> FreeNewWidget(Free(P.H, <<"text", d>>), d)]
    ELSE [ret |-> d, H |-> AddWidgetToWindow(Touch(P.H, <<"widgets", w>>), w, d, fail)]

(***************************************************************************)
(* Widget properties: lightgui.c LG_SetWidgetText .. LG_SetWidgetTextColor *)
(***************************************************************************)
\* The bytes of the strings the application uses, without the terminating zero.
Bytes(text) ==
    CASE text = "" -> <<>>
      [] text = "OK" -> <<"O", "K">>
      [] text = "Hello" -> <<"H", "e", "l", "l", "o">>

\* The terminating zero byte.
NUL == "\\0"

\* if (!g_initialized || !window || !window->visible) return;
\* LG_PlatformRenderWindow(window).
LG_RenderWindow(H, w) ==
    IF ~H.g_initialized \/ w = NULL THEN H
    ELSE LET H0 == Touch(H, <<"Window", w>>)
         IN IF ~H0.window[w].visible THEN H0 ELSE PlatformRenderWindow(H0, w)

\* LG_SetWidgetText that takes a null text for the empty string.
LG_SetWidgetText_NullIsEmpty(H, d, text, fail) ==
    IF ~H.g_initialized \/ d = NULL THEN H
    ELSE LET H0 == Touch(H, <<"Widget", d>>)
             H1 == IF H0.widget[d].text = NoText THEN H0 ELSE Free(H0, <<"text", d>>)
             H2 == IF fail = "text" THEN [H1 EXCEPT !.widget[d].text = NoText]
                   ELSE [Malloc(H1, <<"text", d>>) EXCEPT
                             !.widget[d].text = IF text = NoText THEN "" ELSE text]
         IN PlatformUpdateWidget(H2, d, fail)

\* free(widget->text); widget->text = STRDUP(text); LG_PlatformUpdateWidget.
\* fail = "text" is a failing STRDUP, fail = "text_wide" a failing Utf8ToWide.
LG_SetWidgetText(H, d, text, fail) ==
    IF ~H.g_initialized \/ d = NULL \/ text = NoText THEN H
    ELSE LET H0 == Touch(H, <<"Widget", d>>)
             H1 == IF H0.widget[d].text = NoText THEN H0 ELSE Free(H0, <<"text", d>>)
             H2 == IF fail = "text" THEN [H1 EXCEPT !.widget[d].text = NoText]
                   ELSE [Malloc(H1, <<"text", d>>) EXCEPT !.widget[d].text = text]
         IN PlatformUpdateWidget(H2, d, fail)

\* LG_GetWidgetText that copies the whole text whatever the size of the buffer.
LG_GetWidgetText_NoClamp(H, d, buffer, buffer_size) ==
    IF ~H.g_initialized \/ d = NULL \/ buffer = <<>> \/ buffer_size = 0
    THEN [ret |-> -1, buffer |-> buffer, H |-> H]
    ELSE LET H0 == Touch(H, <<"Widget", d>>) IN
    IF H0.widget[d].text = NoText
    THEN [ret |-> 0, buffer |-> <<NUL>> \o Tail(buffer), H |-> H0]
    ELSE LET copy_len == Len(Bytes(H0.widget[d].text))
         IN [ret |-> copy_len,
             buffer |-> Bytes(H0.widget[d].text) \o <<NUL>>
                            \o SubSeq(buffer, copy_len + 2, Len(buffer)),
             H |-> Touch(H0, <<"text", d>>)]

\* A null char pointer given as the buffer: no memory.
NoBuffer == <<>>

\* buffer is the memory from the address given on, buffer_size the size the
\* caller states.  Returns the count and the memory afterwards.
LG_GetWidgetText(H, d, buffer, buffer_size) ==
    IF ~H.g_initialized \/ d = NULL \/ buffer = NoBuffer \/ buffer_size = 0
    THEN [ret |-> -1, buffer |-> buffer, H |-> H]
    ELSE LET H0 == Touch(H, <<"Widget", d>>) IN
    IF H0.widget[d].text = NoText
    THEN [ret |-> 0, buffer |-> <<NUL>> \o Tail(buffer), H |-> H0]
    ELSE LET text_len == Len(Bytes(H0.widget[d].text))
             copy_len == IF text_len < buffer_size - 1 THEN text_len ELSE buffer_size - 1
         IN [ret |-> copy_len,
             buffer |-> SubSeq(Bytes(H0.widget[d].text), 1, copy_len) \o <<NUL>>
                            \o SubSeq(buffer, copy_len + 2, Len(buffer)),
             H |-> Touch(H0, <<"text", d>>)]

\* LG_SetWidgetPosition, LG_SetWidgetSize, LG_SetWidgetVisible,
\* LG_SetWidgetEnabled, LG_SetWidgetBackgroundColor, LG_SetWidgetTextColor:
\* the six bodies differ in the field they assign.
LG_SetWidget(H, d, field, value, fail) ==
    IF ~H.g_initialized \/ d = NULL THEN H
    ELSE LET H0 == Touch(H, <<"Widget", d>>)
             H1 == CASE field = "position" ->
                            [H0 EXCEPT !.widget[d].rect.x = value[1],
                                       !.widget[d].rect.y = value[2]]
                      [] field = "size" ->
                            [H0 EXCEPT !.widget[d].rect.width = value[1],
                                       !.widget[d].rect.height = value[2]]
                      [] field = "visible" -> [H0 EXCEPT !.widget[d].visible = value]
                      [] field = "enabled" -> [H0 EXCEPT !.widget[d].enabled = value]
                      [] field = "bg_color" -> [H0 EXCEPT !.widget[d].bg_color = value]
                      [] field = "text_color" -> [H0 EXCEPT !.widget[d].text_color = value]
         IN PlatformUpdateWidget(H1, d, fail)

(***************************************************************************)
(* Events: lightgui.c LG_SetEventCallback / LG_ProcessEvents and           *)
(* platform/linux.c LG_PlatformProcessEvents                               *)
(***************************************************************************)
\* LG_Run has not been called, or has returned: `running` is the value it had
\* when the loop was left.
NotRunning == [pc |-> "none", running |-> TRUE, i |-> 0]

\* LG_EventCallback values the application has: non-null function addresses.
Callbacks == {1}

\* Two callbacks and two user-data pointers, to tell a pair from the one it replaces.
Handlers == Callbacks \cup {2}
Pointers == {NULL, 1}

LG_EVENT_WINDOW_CLOSE == "WINDOW_CLOSE"
LG_EVENT_WINDOW_RESIZE == "WINDOW_RESIZE"
LG_EVENT_MOUSE_BUTTON == "MOUSE_BUTTON"
LG_EVENT_WIDGET_CLICKED == "WIDGET_CLICKED"
LG_EVENT_MOUSE_MOVE == "MOUSE_MOVE"

LG_MOUSE_BUTTON_LEFT == "LEFT"
LG_MOUSE_BUTTON_MIDDLE == "MIDDLE"
LG_MOUSE_BUTTON_RIGHT == "RIGHT"

\* Native events (XEvent): Button1..Button3 are the buttons the toolkit knows,
\* button 4 stands for every other one; two pointer positions with x # y.
XButtons == 1..4
Positions == {<<1, 2>>, <<2, 1>>}

XButtonEvent(type, x_window, button, pos) ==
    [type |-> type, window |-> x_window, button |-> button,
     x |-> pos[1], y |-> pos[2], wm_delete |-> FALSE]

\* MotionNotify: the pointer is at pos in the native window x_window.
XMotionEvent(x_window, pos) ==
    [type |-> "MotionNotify", window |-> x_window, button |-> 0,
     x |-> pos[1], y |-> pos[2], wm_delete |-> FALSE]

XClientMessage(x_window, wm_delete) ==
    [type |-> "ClientMessage", window |-> x_window, button |-> 0,
     x |-> 0, y |-> 0, wm_delete |-> wm_delete]

\* The events the server can send for the native window x_window.
XEvents(x_window) ==
    {XButtonEvent("ButtonPress", x_window, b, <<1, 2>>) : b \in XButtons}
    \cup {XButtonEvent(t, x_window, 1, p) :
              t \in {"ButtonPress", "ButtonRelease"}, p \in Positions}
    \cup {XClientMessage(x_window, TRUE)}

\* ConfigureNotify: the native window has a new size.
XConfigureEvent(x_window, size) ==
    [type |-> "ConfigureNotify", window |-> x_window, width |-> size[1],
     height |-> size[2]]

\* The sizes a window is resized to: one that differs from WindowSize.
Sizes == {<<5, 6>>}

\* The structure events of a top-level window (StructureNotifyMask and the
\* WM_DELETE_WINDOW protocol, linux.c:251-253 and 278).
XStructureEvents(x_window) ==
    {XConfigureEvent(x_window, size) : size \in Sizes} \cup {XClientMessage(x_window, TRUE)}

NoXEvent == [XClientMessage(0, FALSE) EXCEPT !.type = "None"] @@ [serial |-> 0]

\* LG_Event: the tag, the window DispatchEvent fills in, and the union's fields.
LG_Event(type, d, button, pressed, x, y) ==
    [type |-> type, window |-> NULL, widget |-> d, button |-> button,
     pressed |-> pressed, x |-> x, y |-> y]

NoEvent == LG_Event("None", NULL, "None", FALSE, 0, 0)

\* The window-resize and window-close variants of LG_Event.
WindowResizeEvent(width, height) ==
    [type |-> LG_EVENT_WINDOW_RESIZE, window |-> NULL, width |-> width, height |-> height]

WindowCloseEvent == LG_Event(LG_EVENT_WINDOW_CLOSE, NULL, "None", FALSE, 0, 0)

\* The mouse-move variant with the deltas taken from the origin.
MouseMoveEvent_FromOrigin(x, y, last) ==
    [type |-> LG_EVENT_MOUSE_MOVE, window |-> NULL, x |-> x, y |-> y,
     delta_x |-> x, delta_y |-> y]

\* The mouse-move variant: delta_x = x - last_x, delta_y = y - last_y, where
\* last is the value of the statics last_x, last_y before the event.
MouseMoveEvent(x, y, last) ==
    [type |-> LG_EVENT_MOUSE_MOVE, window |-> NULL, x |-> x, y |-> y,
     delta_x |-> x - last[1], delta_y |-> y - last[2]]

\* The loop of LG_PlatformProcessEvents is not running.  event, window, widget
\* and todo are the locals of the loop body; current, callback and user_data
\* are the event, the function and the pointer of the call in progress; seen lists the events the callback has
\* been given for the native event in hand; taken and returned are the serials
\* of the last native event taken from the queue and of the last one a
\* callback has returned from; native and calls count the native events taken
\* and the callbacks called by the LG_ProcessEvents call in progress; last is
\* the pair of the statics last_x, last_y of the mouse-move case, which are
\* 0 at start-up and outlive the loop.
Idle ==
    [pc |-> "idle", event |-> NoXEvent, window |-> NULL, widget |-> NULL,
     todo |-> <<>>, current |-> NoEvent, callback |-> NULL, user_data |-> NULL,
     seen |-> <<>>, taken |-> 0, returned |-> 0, native |-> 0, calls |-> 0,
     last |-> <<0, 0>>]

\* Between two native events: the locals of the loop body are gone.
Between(P, pc) ==
    [Idle EXCEPT !.pc = pc, !.taken = P.taken, !.returned = P.returned,
                 !.last = P.last,
                 !.native = IF pc = "idle" THEN 0 ELSE P.native,
                 !.calls = IF pc = "idle" THEN 0 ELSE P.calls]

\* void LG_QuitEventLoop(void)
LG_QuitEventLoop(H) == [H EXCEPT !.g_event_loop_running = FALSE]

\* LG_SetEventCallback that stores the callback and leaves the user data as it was.
LG_SetEventCallback_KeepsData(H, w, callback, user_data) ==
    IF ~H.g_initialized \/ w = NULL THEN H
    ELSE [Touch(H, <<"Window", w>>) EXCEPT !.window[w].event_callback = callback]

LG_SetEventCallback(H, w, callback, user_data) ==
    IF ~H.g_initialized \/ w = NULL THEN H
    ELSE [Touch(H, <<"Window", w>>) EXCEPT !.window[w].event_callback = callback,
                                           !.window[w].user_data = user_data]

\* static LG_WidgetHandle FindWidgetByHandle(Window): the first widget, in
\* registry order and then collection order, whose native sub-window is x_window.
FindWidgetByHandle(H, x_window) ==
    LET reg == H.g_windows.windows
        at(p) == H.window[reg[p[1]]].widgets[p[2]]
        hit == {p \in UNION {{<<i, j>> : j \in 1..Len(H.window[reg[i]].widgets)} :
                                i \in 1..Len(reg)} :
                   /\ H.widget[at(p)].platform_data # NULL
                   /\ H.widget[at(p)].data.window = x_window}
    IN IF hit = {} THEN NULL
       ELSE at(CHOOSE p \in hit :
                  \A q \in hit : p[1] < q[1] \/ (p[1] = q[1] /\ p[2] <= q[2]))

\* case ButtonPress / ButtonRelease: the generic mouse-button event.
MouseButtonEvent(e) ==
    LG_Event(LG_EVENT_MOUSE_BUTTON, NULL,
             CASE e.button = 1 -> LG_MOUSE_BUTTON_LEFT
               [] e.button = 2 -> LG_MOUSE_BUTTON_MIDDLE
               [] OTHER        -> LG_MOUSE_BUTTON_RIGHT,
             e.type = "ButtonPress", e.x, e.y)

WidgetClickedEvent(e, d) == LG_Event(LG_EVENT_WIDGET_CLICKED, d, "None", FALSE, e.x, e.y)

\* ButtonEvents with the test for the left button forgotten: a press of any
\* known button on a widget is also dispatched as a widget-clicked event.
ButtonEvents_AnyButtonClicks(e, d) ==
    IF e.button \notin 1..3 THEN <<>>
    ELSE IF d # NULL /\ e.type = "ButtonPress"
    THEN <<WidgetClickedEvent(e, d), MouseButtonEvent(e)>>
    ELSE <<MouseButtonEvent(e)>>

\* The normalized events a button event is dispatched as, in dispatch order.
ButtonEvents(e, d) ==
    IF e.button \notin 1..3 THEN <<>>
    ELSE IF d # NULL /\ e.type = "ButtonPress"
            /\ MouseButtonEvent(e).button = LG_MOUSE_BUTTON_LEFT
    THEN <<WidgetClickedEvent(e, d), MouseButtonEvent(e)>>
    ELSE <<MouseButtonEvent(e)>>

\* switch (event.type): the normalized events of one native event.
Normalize(e, d) ==
    CASE e.type \in {"ButtonPress", "ButtonRelease"} -> ButtonEvents(e, d)
      [] e.type = "ClientMessage" ->
            IF e.wm_delete THEN <<LG_Event(LG_EVENT_WINDOW_CLOSE, NULL, "None", FALSE, 0, 0)>>
            ELSE <<>>
      [] e.type = "ConfigureNotify" ->
            IF d = NULL THEN <<WindowResizeEvent(e.width, e.height)>> ELSE <<>>
      [] OTHER -> <<>>

\* case ConfigureNotify with the assignment of the new size forgotten.
ConfigureWindow_KeepsSize(H, w, e) ==
    LET H1 == Touch(H, <<"Window", w>>)
        H2 == XFree(Touch(H1, <<"WindowData", w>>), <<"Pixmap", w>>)
    IN Malloc(H2, <<"Pixmap", w>>)

\* case ConfigureNotify, before the dispatch: the new size is stored and the
\* back buffer is replaced by one of that size.
ConfigureWindow(H, w, e) ==
    LET H1 == [Touch(H, <<"Window", w>>) EXCEPT !.window[w].width = e.width,
                                                !.window[w].height = e.height]
        H2 == XFree(Touch(H1, <<"WindowData", w>>), <<"Pixmap", w>>)
    IN Malloc(H2, <<"Pixmap", w>>)

\* DispatchEvent for the events the loop body still has to dispatch, up to the
\* first one for which the window's callback is called; with none left the loop
\* goes on to XPending.
RECURSIVE Dispatch(_, _)
Dispatch(H, P) ==
    IF P.todo = <<>>
    THEN [H |-> H, P |-> Between(P, "loop")]
    ELSE LET H1 == Touch(H, <<"Window", P.window>>)
             cb == H1.window[P.window].event_callback
         IN IF cb # NULL
            THEN [H |-> H1,
                  P |-> [P EXCEPT !.pc = "callback",
                                  !.current = [Head(P.todo) EXCEPT !.window = P.window],
                                  !.callback = cb,
                                  !.user_data = H1.window[P.window].user_data,
                                  !.calls = @ + 1,
                                  !.todo = Tail(@),
                                  !.seen = Append(@, [Head(P.todo) EXCEPT
                                                         !.window = P.window])]]
            ELSE Dispatch(H1, [P EXCEPT !.todo = Tail(@)])

\* XNextEvent taking the newest event of the queue instead of the oldest.
XNextEvent_Newest(H) ==
    [event |-> H.xqueue[Len(H.xqueue)],
     H |-> [H EXCEPT !.xqueue = SubSeq(@, 1, Len(@) - 1)]]

\* XNextEvent: remove the event at the head of the queue.
XNextEvent(H) == [event |-> Head(H.xqueue), H |-> [H EXCEPT !.xqueue = Tail(@)]]

\* One round of `while (XPending(g_display))`: the test, XNextEvent, the lookup
\* of the window and widget, the switch, up to the first callback called.
ProcessNextEvent(H, P) ==
    IF ~H.g_display
    THEN [H |-> [H EXCEPT !.fault = @ \cup {"null_display"}], P |-> P]
    ELSE IF H.xqueue = <<>> THEN [H |-> H, P |-> Between(P, "idle"), ret |-> TRUE]
    ELSE LET N  == XNextEvent(H)
             e  == N.event
             w0 == IF e.window # 0 THEN FindWindowByHandle(N.H, e.window) ELSE NULL
             d  == IF e.window # 0 /\ w0 = NULL
                   THEN FindWidgetByHandle(N.H, e.window) ELSE NULL
             H1 == IF d # NULL THEN Touch(N.H, <<"Widget", d>>) ELSE N.H
             w  == IF w0 # NULL THEN w0
                   ELSE IF d # NULL THEN H1.widget[d].window ELSE NULL
             P1 == [Between(P, "loop") EXCEPT !.taken = e.serial, !.native = @ + 1]
             H2 == IF w # NULL /\ d = NULL /\ e.type = "ConfigureNotify"
                   THEN ConfigureWindow(H1, w, e) ELSE H1
         IN IF w = NULL THEN [H |-> H1, P |-> P1]
            ELSE IF e.type = "MotionNotify"
            THEN Dispatch(H2, [P1 EXCEPT !.event = e, !.window = w, !.widget = d,
                                         !.last = <<e.x, e.y>>,
                                         !.todo = <<MouseMoveEvent(e.x, e.y, P.last)>>])
            ELSE Dispatch(H2, [P1 EXCEPT !.event = e, !.window = w, !.widget = d,
                                         !.todo = Normalize(e, d)])

(***************************************************************************)
(* platform/windows.c: WindowProc and LG_PlatformProcessEvents             *)
(***************************************************************************)
\* The messages the system posts for the LightGUI_Window hwnd; lparam is the
\* pair of its low and high words.
Messages(hwnd) ==
    {[message |-> "WM_CLOSE", hwnd |-> hwnd, lparam |-> <<0, 0>>],
     [message |-> "WM_LBUTTONDOWN", hwnd |-> hwnd, lparam |-> <<1, 2>>]}
    \cup {[message |-> "WM_SIZE", hwnd |-> hwnd, lparam |-> size] : size \in Sizes}

\* WindowProc: the normalized events of one message for the logical window w
\* (DispatchEvent does nothing for a null window).
WindowProcEvents(m, w) ==
    IF w = NULL THEN <<>>
    ELSE CASE m.message = "WM_CLOSE" -> <<WindowCloseEvent>>
           [] m.message = "WM_SIZE" -> <<WindowResizeEvent(m.lparam[1], m.lparam[2])>>
           [] m.message \in {"WM_LBUTTONDOWN", "WM_LBUTTONUP"} ->
                 <<LG_Event(LG_EVENT_MOUSE_BUTTON, NULL, LG_MOUSE_BUTTON_LEFT,
                            m.message = "WM_LBUTTONDOWN", m.lparam[1], m.lparam[2])>>
           [] m.message \in {"WM_RBUTTONDOWN", "WM_RBUTTONUP"} ->
                 <<LG_Event(LG_EVENT_MOUSE_BUTTON, NULL, LG_MOUSE_BUTTON_RIGHT,
                            m.message = "WM_RBUTTONDOWN", m.lparam[1], m.lparam[2])>>
           [] m.message \in {"WM_MBUTTONDOWN", "WM_MBUTTONUP"} ->
                 <<LG_Event(LG_EVENT_MOUSE_BUTTON, NULL, LG_MOUSE_BUTTON_MIDDLE,
                            m.message = "WM_MBUTTONDOWN", m.lparam[1], m.lparam[2])>>
           [] OTHER -> <<>>

\* static LG_WidgetHandle FindWidgetByHwnd(HWND): the first widget, in registry
\* order and then collection order, whose control is hwnd.
FindWidgetByHwnd(H, hwnd) ==
    LET reg == H.g_windows.windows
        at(p) == H.window[reg[p[1]]].widgets[p[2]]
        hit == {p \in UNION {{<<i, j>> : j \in 1..Len(H.window[reg[i]].widgets)} :
                                i \in 1..Len(reg)} :
                   /\ H.widget[at(p)].platform_data # NULL
                   /\ H.widget[at(p)].data.hwnd = hwnd}
    IN IF hit = {} THEN NULL
       ELSE at(CHOOSE p \in hit :
                  \A q \in hit : p[1] < q[1] \/ (p[1] = q[1] /\ p[2] <= q[2]))

\* case WM_COMMAND: lparam (its first component here) is the HWND of the
\* control that notifies; BN_CLICKED of a widget of type button is dispatched
\* as a widget-clicked event with the x and y of the widget's rect.
CommandEvents(H, m, w) ==
    LET d == IF m.lparam[1] = 0 THEN NULL ELSE FindWidgetByHwnd(H, m.lparam[1])
    IN IF w = NULL \/ d = NULL THEN <<>>
       ELSE IF m.notification = "BN_CLICKED" /\ H.widget[d].type = LG_WIDGET_BUTTON
       THEN <<LG_Event(LG_EVENT_WIDGET_CLICKED, d, "None", FALSE,
                       H.widget[d].rect.x, H.widget[d].rect.y)>>
       ELSE <<>>

\* WindowProc for one message, with the statics last_x, last_y at last: the
\* normalized events to dispatch.
WindowProcTodo(H, m, w, last) ==
    CASE m.message = "WM_MOUSEMOVE" ->
             IF w = NULL THEN <<>>
             ELSE <<MouseMoveEvent(m.lparam[1], m.lparam[2], last)>>
      [] m.message = "WM_COMMAND" -> CommandEvents(H, m, w)
      [] OTHER -> WindowProcEvents(m, w)

\* case WM_MOUSEMOVE assigns last_x, last_y whether or not the window is known.
WindowProcLast(m, last) ==
    IF m.message = "WM_MOUSEMOVE" THEN <<m.lparam[1], m.lparam[2]>> ELSE last

\* case WM_SIZE, before the dispatch: the new size is stored.
SizeWindow(H, w, m) ==
    [Touch(H, <<"Window", w>>) EXCEPT !.window[w].width = m.lparam[1],
                                      !.window[w].height = m.lparam[2]]

\* case WM_SIZE, after the dispatch: the window is marked for redraw.
MarkForRedraw(H, w) ==
    LET H1 == Touch(H, <<"Window", w>>)
    IN IF H1.window[w].platform_data = NULL THEN H1
       ELSE [Touch(H1, <<"WindowData", w>>) EXCEPT !.window[w].data.needs_redraw = TRUE]

\* What the loop body does once DispatchEvent has returned for the last time.
AfterDispatch(H, P) ==
    IF H.platform = "win32" /\ P.window # NULL /\ P.event.message = "WM_SIZE"
    THEN MarkForRedraw(H, P.window)
    ELSE H

\* The loop body from a DispatchEvent call on: the remaining dispatches up to
\* the next callback called, or to the end of the body.
Resume(H, P) ==
    LET D == Dispatch(H, P)
    IN IF D.P.pc = "loop" THEN [H |-> AfterDispatch(D.H, P), P |-> D.P] ELSE D

\* ProcessNextMessage without the test for WM_QUIT: the message is dispatched
\* like any other and the loop returns true.
ProcessNextMessage_QuitIgnored(H, P) ==
    IF H.win32.queue = <<>>
    THEN [H |-> [H EXCEPT !.win32.quit = FALSE], P |-> Between(P, "idle"), ret |-> TRUE]
    ELSE LET m  == Head(H.win32.queue)
             H1 == [H EXCEPT !.win32.queue = Tail(@)]
             w  == FindWindowByHwnd(H1, m.hwnd)
             H2 == IF w # NULL /\ m.message = "WM_SIZE" THEN SizeWindow(H1, w, m) ELSE H1
             P1 == [Between(P, "loop") EXCEPT !.taken = m.serial, !.native = @ + 1]
         IN Resume(H2, [P1 EXCEPT !.event = m, !.window = w,
                                  !.last = WindowProcLast(m, P.last),
                                  !.todo = WindowProcTodo(H2, m, w, P.last)])

\* One round of `while (PeekMessage(&msg, NULL, 0, 0, PM_REMOVE))`: a posted
\* message is taken first; WM_QUIT is made up from the quit request once no
\* posted message is left, and the function returns with the input messages
\* still queued; DispatchMessage calls WindowProc.
ProcessNextMessage(H, P) ==
    IF QuitIsNext(H)
    THEN [H |-> [H EXCEPT !.win32.quit = FALSE], P |-> Between(P, "idle"), ret |-> FALSE]
    ELSE IF H.win32.queue = <<>>
    THEN [H |-> H, P |-> Between(P, "idle"), ret |-> TRUE]
    ELSE LET m  == Head(H.win32.queue)
             H1 == [H EXCEPT !.win32.queue = Tail(@)]
             w  == FindWindowByHwnd(H1, m.hwnd)
             H2 == IF w # NULL /\ m.message = "WM_SIZE" THEN SizeWindow(H1, w, m) ELSE H1
             P1 == [Between(P, "loop") EXCEPT !.taken = m.serial, !.native = @ + 1]
         IN Resume(H2, [P1 EXCEPT !.event = m, !.window = w,
                                  !.last = WindowProcLast(m, P.last),
                                  !.todo = WindowProcTodo(H2, m, w, P.last)])

\* bool LG_PlatformProcessEvents(void), one round of its loop.
PlatformProcessEvents(H, P) ==
    IF H.platform = "win32" THEN ProcessNextMessage(H, P) ELSE ProcessNextEvent(H, P)

\* bool LG_ProcessEvents(void) up to the loop of LG_PlatformProcessEvents.
LG_ProcessEvents(H, P) ==
    IF ~H.g_initialized \/ (H.platform = "linux" /\ ~H.g_display) THEN P
    ELSE [P EXCEPT !.pc = "loop"]

(***************************************************************************)
(* src/lightgui.c: LG_Run                                                  *)
(***************************************************************************)
\* running = LG_PlatformProcessEvents(): the call, up to the loop of the
\* backend (on X11 it returns false at once without a display).
EnterPump(H, P) ==
    IF H.platform = "linux" /\ ~H.g_display
    THEN [P |-> P, run |-> [pc |-> "render", running |-> FALSE, i |-> 0]]
    ELSE [P |-> [P EXCEPT !.pc = "loop"],
          run |-> [pc |-> "events", running |-> TRUE, i |-> 0]]

\* LG_Run with the test of `running` forgotten: while (true).
AfterSleep_Forever(H, P, R) == EnterPump(H, P)

\* SLEEP_MS(10) is over: while (running) goes round again, or LG_Run returns.
AfterSleep(H, P, R) ==
    IF R.running THEN EnterPump(H, P)
    ELSE [P |-> P, run |-> [NotRunning EXCEPT !.running = FALSE]]

(***************************************************************************)
(* The application: any sequence of public calls, on any handle it was     *)
(* ever given (live or dangling) or on NULL, with any allocation failing.  *)
(***************************************************************************)
InitializeFailures == {"none", "display", "font", "list"}
WindowFailures == {"none", "window", "title", "widgets", "WindowData",
                   "XCreateWindow", "GC", "Pixmap", "registry"}
WidgetFailures == {"none", "widget", "text", "WidgetData", "XCreateWindow", "realloc"}

\* What a call that ran into undefined behaviour or an X error may leave: the
\* result of carrying on with the stale content, or the process stopped midway.
\* The application runs between calls of the event pump and inside a callback
\* the pump has called; calling LG_ProcessEvents again from inside a callback
\* is a re-entrant call, which the toolkit does not support.
AppHasControl ==
    fault = {} /\ pump.pc \in {"idle", "callback"} /\ run.pc \notin {"render", "sleep"}

Outcomes(R) ==
    IF R.fault = {} THEN {R}
    ELSE {R, [State EXCEPT !.fault = R.fault \cup {"crash"}]}

Commit(R) ==
    /\ g_initialized' = R.g_initialized
    /\ g_event_loop_running' = R.g_event_loop_running
    /\ g_display' = R.g_display
    /\ g_windows' = R.g_windows
    /\ window' = R.window
    /\ widget' = R.widget
    /\ alloc' = R.alloc
    /\ xwindows' = R.xwindows
    /\ xqueue' = R.xqueue
    /\ fault' = R.fault
    /\ platform' = R.platform
    /\ win32' = R.win32

Initialize ==
    /\ AppHasControl
    /\ budget.initialize > 0
    /\ \E fail \in InitializeFailures :
          /\ g_initialized => fail = "none"
          /\ LET C == LG_Initialize(State, fail)
             IN \E R \in Outcomes(C.H) : Commit(R)
    /\ budget' = [budget EXCEPT !.initialize = IF g_initialized' # g_initialized
                                                THEN @ - 1 ELSE @]
    /\ UNCHANGED <<handles, pump, run>>

Terminate ==
    /\ AppHasControl
    /\ \E R \in Outcomes(LG_Terminate(State)) : Commit(R)
    /\ UNCHANGED <<handles, budget, pump, run>>

CreateWindow ==
    /\ AppHasControl
    /\ budget.windows > 0
    /\ \E fail \in WindowFailures, ownfont \in BOOLEAN :
          /\ fail = "registry" =>
                g_initialized /\ Len(g_windows.windows) >= g_windows.capacity
          /\ LET C == LG_CreateWindow(State, fail, ownfont)
             IN /\ \E R \in Outcomes(C.H) : Commit(R)
                /\ handles' = [handles EXCEPT !.windows = @ \cup ({C.ret} \ {NULL})]
                /\ budget' = [budget EXCEPT !.windows =
                                  IF Len(window') > Len(window) THEN @ - 1 ELSE @]
    /\ UNCHANGED <<pump, run>>

CreateWidget(type) ==
    /\ AppHasControl
    /\ budget.widgets > 0
    /\ \E w \in handles.windows \cup {NULL}, text \in Texts \cup {NoText},
          fail \in WidgetFailures :
          /\ fail = "realloc" =>
                /\ g_initialized /\ w # NULL
                /\ Len(window[w].widgets) >= window[w].capacity
          /\ LET C == LG_CreateWidget(State, type, w, text, fail)
             IN /\ \E R \in Outcomes(C.H) : Commit(R)
                /\ handles' = [handles EXCEPT !.widgets = @ \cup ({C.ret} \ {NULL})]
                /\ budget' = [budget EXCEPT !.widgets = IF C.ret # NULL THEN @ - 1 ELSE @]
    /\ UNCHANGED <<pump, run>>

CreateButton == CreateWidget(LG_WIDGET_BUTTON)

CreateLabel == CreateWidget(LG_WIDGET_LABEL)

CreateTextField == CreateWidget(LG_WIDGET_TEXTFIELD)

DestroyWindow ==
    /\ AppHasControl
    /\ \E w \in handles.windows \cup {NULL} :
          \E R \in Outcomes(LG_DestroyWindow(State, w)) : Commit(R)
    /\ UNCHANGED <<handles, budget, pump, run>>

DestroyWidget ==
    /\ AppHasControl
    /\ \E d \in handles.widgets \cup {NULL} :
          \E R \in Outcomes(LG_DestroyWidget(State, d)) : Commit(R)
    /\ UNCHANGED <<handles, budget, pump, run>>

\* LG_SetEventCallback with one of the callbacks and of the user-data pointers
\* given.
SetCallback(callbacks, pointers) ==
    /\ AppHasControl
    /\ \E w \in handles.windows \cup {NULL}, callback \in callbacks, user_data \in pointers :
          \E R \in Outcomes(LG_SetEventCallback(State, w, callback, user_data)) : Commit(R)
    /\ UNCHANGED <<handles, budget, pump, run>>

SetEventCallback == SetCallback(Callbacks \cup {NULL}, {NULL})

SetEventCallbackAndData == SetCallback(Handlers \cup {NULL}, Pointers)

\* Text arguments of LG_SetWidgetText, the null pointer among them.
NewTexts == {"", "OK", "Hello", NoText}

\* What does not succeed in a setter call: nothing, STRDUP, Utf8ToWide.
SetterFailures == {"none", "text", "text_wide"}

SetWidgetText ==
    /\ AppHasControl
    /\ budget.calls > 0
    /\ \E d \in handles.widgets \cup {NULL}, text \in NewTexts, fail \in SetterFailures :
          /\ fail = "text_wide" => platform = "win32"
          /\ \E R \in Outcomes(LG_SetWidgetText(State, d, text, fail)) : Commit(R)
    /\ budget' = [budget EXCEPT !.calls = @ - 1]
    /\ UNCHANGED <<handles, pump, run>>

\* The arguments of the six property setters.
Properties ==
    ({"position"} \X {<<1, 2>>, <<3, 4>>}) \cup ({"size"} \X {<<7, 5>>, <<8, 6>>})
    \cup ({"visible", "enabled"} \X BOOLEAN)
    \cup ({"bg_color"} \X {LG_COLOR_WHITE, LG_COLOR_TRANSPARENT})
    \cup ({"text_color"} \X {LG_COLOR_BLACK, LG_COLOR_RED})

SetWidgetProperty ==
    /\ AppHasControl
    /\ budget.calls > 0
    /\ \E d \in handles.widgets \cup {NULL}, p \in Properties,
          fail \in SetterFailures \ {"text"} :
          /\ fail = "text_wide" => platform = "win32"
          /\ \E R \in Outcomes(LG_SetWidget(State, d, p[1], p[2], fail)) : Commit(R)
    /\ budget' = [budget EXCEPT !.calls = @ - 1]
    /\ UNCHANGED <<handles, pump, run>>

\* Sizes the caller states for its buffer, and the memory at the buffer's
\* address: one byte more than the largest size, so that a write past the
\* stated size lands in it.
BufferSizes == 0..7
Memory == <<"?", "?", "?", "?", "?", "?", "?", "?">>

\* LG_GetWidgetText leaves the toolkit as it is unless the handle is stale.
GetWidgetText ==
    /\ AppHasControl
    /\ \E d \in handles.widgets \cup {NULL}, n \in BufferSizes :
          \E R \in Outcomes(LG_GetWidgetText(State, d, Memory, n).H) : Commit(R)
    /\ UNCHANGED <<handles, budget, pump, run>>

\* The X server queues an event for one of the native windows it has.
XEvent ==
    /\ fault = {}
    /\ g_display
    /\ budget.events > 0
    /\ \E xw \in xwindows : \E e \in XEvents(xw[1]) :
          xqueue' = Append(xqueue, e @@ [serial |-> MaxEvents + 1 - budget.events])
    /\ budget' = [budget EXCEPT !.events = @ - 1]
    /\ UNCHANGED <<g_initialized, g_event_loop_running, g_display, g_windows, window, widget, alloc, xwindows,
                   fault, handles, pump, platform, win32, run>>

\* The X server queues a structure event for one of the top-level windows.
XStructureEvent ==
    /\ fault = {}
    /\ g_display
    /\ budget.events > 0
    /\ \E xw \in xwindows : \E e \in XStructureEvents(xw[1]) :
          /\ xw[2] = 0
          /\ xqueue' = Append(xqueue, e @@ [serial |-> MaxEvents + 1 - budget.events])
    /\ budget' = [budget EXCEPT !.events = @ - 1]
    /\ UNCHANGED <<g_initialized, g_event_loop_running, g_display, g_windows, window, widget, alloc, xwindows,
                   fault, handles, pump, platform, win32, run>>

\* Windows posts a message for one of the top-level windows of the thread.
PostMessage ==
    /\ fault = {}
    /\ platform = "win32"
    /\ budget.events > 0
    /\ \E c \in win32.hwnds : \E m \in Messages(c[1]) :
          /\ c[2] = 0
          /\ win32' = [win32 EXCEPT !.queue =
                           Enqueue(@, m @@ [serial |-> MaxEvents + 1 - budget.events])]
    /\ budget' = [budget EXCEPT !.events = @ - 1]
    /\ UNCHANGED <<g_initialized, g_event_loop_running, g_display, g_windows, window, widget, alloc, xwindows,
                   xqueue, fault, handles, pump, platform, run>>

\* Pointer events the application receives.
PointerEvents == 3

\* What the pointer makes the server send for the native window x_window: a
\* move to either position, a press of the left and of the right button and a
\* release of the left one.
XPointerEvents(x_window) ==
    {XMotionEvent(x_window, pos) : pos \in Positions}
    \cup {XButtonEvent("ButtonPress", x_window, b, <<2, 1>>) : b \in {1, 3}}
    \cup {XButtonEvent("ButtonRelease", x_window, 1, <<2, 1>>)}

\* The X server queues a pointer event for one of the native windows it has,
\* top-level window or sub-window of a widget.
PointerEvent ==
    /\ fault = {}
    /\ g_display
    /\ budget.events > 0
    /\ \E xw \in xwindows : \E e \in XPointerEvents(xw[1]) :
          xqueue' = Append(xqueue, e @@ [serial |-> PointerEvents + 1 - budget.events])
    /\ budget' = [budget EXCEPT !.events = @ - 1]
    /\ UNCHANGED <<g_initialized, g_event_loop_running, g_display, g_windows, window, widget, alloc, xwindows,
                   fault, handles, pump, platform, win32, run>>

\* A ConfigureNotify reaches the client for one of the native windows it has
\* made: from the server for a top-level window (StructureNotifyMask), from
\* another client's XSendEvent for any of them.
ConfigureEvent ==
    /\ fault = {}
    /\ g_display
    /\ budget.events > 0
    /\ \E xw \in xwindows, size \in Sizes :
          xqueue' = Append(xqueue, XConfigureEvent(xw[1], size)
                                       @@ [serial |-> PointerEvents + 1 - budget.events])
    /\ budget' = [budget EXCEPT !.events = @ - 1]
    /\ UNCHANGED <<g_initialized, g_event_loop_running, g_display, g_windows, window, widget, alloc, xwindows,
                   fault, handles, pump, platform, win32, run>>

\* Windows posts WM_SIZE for a top-level window; the WM_SIZE of a control
\* goes to the window procedure of the control's class, not to WindowProc.
SizeMessage ==
    /\ fault = {}
    /\ platform = "win32"
    /\ budget.events > 0
    /\ \E c \in win32.hwnds, size \in Sizes :
          /\ c[2] = 0
          /\ win32' = [win32 EXCEPT !.queue =
                           Enqueue(@, [message |-> "WM_SIZE", hwnd |-> c[1], lparam |-> size]
                                         @@ [serial |-> PointerEvents + 1 - budget.events])]
    /\ budget' = [budget EXCEPT !.events = @ - 1]
    /\ UNCHANGED <<g_initialized, g_event_loop_running, g_display, g_windows, window, widget, alloc, xwindows,
                   xqueue, fault, handles, pump, platform, run>>

\* The mouse messages Windows posts for the top-level window hwnd when the
\* pointer is over its client area or over a static control, which is
\* transparent to the pointer.
MouseMessages(hwnd) ==
    {[message |-> "WM_MOUSEMOVE", hwnd |-> hwnd, lparam |-> pos] : pos \in Positions}
    \cup {[message |-> msg, hwnd |-> hwnd, lparam |-> <<2, 1>>] :
              msg \in {"WM_LBUTTONDOWN", "WM_RBUTTONDOWN", "WM_LBUTTONUP"}}

\* WM_COMMAND as the control of a widget of the given type sends it to its
\* parent when it is clicked at pos: BN_CLICKED from a button, EN_SETFOCUS
\* from an edit control, nothing from a static control.  The message does not
\* carry the position; click records it.
ControlMessages(parent, control, type, pos) ==
    CASE type = LG_WIDGET_BUTTON ->
             {[message |-> "WM_COMMAND", hwnd |-> parent, lparam |-> <<control, 0>>,
               notification |-> "BN_CLICKED", click |-> pos]}
      [] type = LG_WIDGET_TEXTFIELD ->
             {[message |-> "WM_COMMAND", hwnd |-> parent, lparam |-> <<control, 0>>,
               notification |-> "EN_SETFOCUS", click |-> pos]}
      [] OTHER -> {}

\* The messages the pointer brings about: for a top-level window its mouse
\* messages, for a control the notification to its parent.
PointerMessages(c) ==
    IF c[2] = 0 THEN MouseMessages(c[1])
    ELSE UNION {ControlMessages(c[2], c[1], widget[d].type, <<2, 1>>) :
                   d \in {e \in 1..Len(widget) : /\ widget[e].platform_data # NULL
                                                  /\ widget[e].data.hwnd = c[1]}}

PointerMessage ==
    /\ fault = {}
    /\ platform = "win32"
    /\ budget.events > 0
    /\ \E c \in win32.hwnds : \E m \in PointerMessages(c) :
          win32' = [win32 EXCEPT !.queue =
                        Append(@, m @@ [serial |-> PointerEvents + 1 - budget.events])]
    /\ budget' = [budget EXCEPT !.events = @ - 1]
    /\ UNCHANGED <<g_initialized, g_event_loop_running, g_display, g_windows, window, widget, alloc, xwindows,
                   xqueue, fault, handles, pump, platform, run>>

ShowWindow ==
    /\ AppHasControl
    /\ \E w \in handles.windows \cup {NULL} :
          \E R \in Outcomes(LG_ShowWindow(State, w)) : Commit(R)
    /\ UNCHANGED <<handles, budget, pump, run>>

HideWindow ==
    /\ AppHasControl
    /\ \E w \in handles.windows \cup {NULL} :
          \E R \in Outcomes(LG_HideWindow(State, w)) : Commit(R)
    /\ UNCHANGED <<handles, budget, pump, run>>

\* Commit of a step of the pump.
CommitPump(C) ==
    \E R \in Outcomes(C.H) :
        /\ Commit(R)
        /\ pump' = IF R = C.H THEN C.P ELSE pump

\* The application calls LG_ProcessEvents from its main loop.
ProcessEvents ==
    /\ AppHasControl
    /\ pump.pc = "idle"
    /\ pump' = LG_ProcessEvents(State, pump)
    /\ UNCHANGED <<g_initialized, g_event_loop_running, g_display, g_windows, window, widget, alloc, xwindows,
                   xqueue, fault, handles, budget, platform, win32, run>>

\* The loop takes the next native event, or ends; in LG_Run its return value
\* is assigned to `running` and the render loop begins.
NextEvent ==
    /\ fault = {}
    /\ pump.pc = "loop"
    /\ LET C == PlatformProcessEvents(State, pump)
       IN /\ CommitPump(C)
          /\ run' = IF run.pc = "events" /\ pump'.pc = "idle"
                    THEN [pc |-> "render", running |-> C.ret, i |-> 0]
                    ELSE run
    /\ UNCHANGED <<handles, budget>>

\* The callback returns into the loop body, which goes on dispatching.
CallbackReturn ==
    /\ fault = {}
    /\ pump.pc = "callback"
    /\ CommitPump(Resume(State, [pump EXCEPT !.returned = pump.event.serial]))
    /\ UNCHANGED <<handles, budget, run>>

\* The application calls LG_Run from its main function.
Run ==
    /\ AppHasControl
    /\ pump.pc = "idle"
    /\ run.pc = "none"
    /\ run' = EnterPump(State, pump).run
    /\ pump' = EnterPump(State, pump).P
    /\ UNCHANGED <<g_initialized, g_event_loop_running, g_display, g_windows, window, widget, alloc, xwindows,
                   xqueue, fault, handles, budget, platform, win32>>

\* for (i = 0; i < g_windows.count; i++) LG_PlatformRenderWindow(g_windows.windows[i]):
\* one round, or the end of the loop.
RunRender ==
    /\ fault = {}
    /\ run.pc = "render"
    /\ IF run.i < Len(g_windows.windows)
       THEN /\ \E R \in Outcomes(PlatformRenderWindow(State, g_windows.windows[run.i + 1])) :
                  Commit(R)
            /\ run' = [run EXCEPT !.i = @ + 1]
       ELSE /\ run' = [run EXCEPT !.pc = "sleep"]
            /\ UNCHANGED <<g_initialized, g_event_loop_running, g_display, g_windows, window, widget, alloc,
                           xwindows, xqueue, fault, platform, win32>>
    /\ UNCHANGED <<handles, budget, pump>>

RunSleep ==
    /\ fault = {}
    /\ run.pc = "sleep"
    /\ run' = AfterSleep(State, pump, run).run
    /\ pump' = AfterSleep(State, pump, run).P
    /\ UNCHANGED <<g_initialized, g_event_loop_running, g_display, g_windows, window, widget, alloc, xwindows,
                   xqueue, fault, handles, budget, platform, win32>>

\* The application calls LG_QuitEventLoop, between pumps or from a callback.
QuitEventLoop ==
    /\ AppHasControl
    /\ budget.calls > 0
    /\ Commit(LG_QuitEventLoop(State))
    /\ budget' = [budget EXCEPT !.calls = @ - 1]
    /\ UNCHANGED <<handles, pump, run>>

\* The lifecycle calls, with buttons as the widgets.
Next ==
    \/ Initialize
    \/ Terminate
    \/ CreateWindow
    \/ CreateButton
    \/ DestroyWindow
    \/ DestroyWidget

\* The lifecycle calls with the three widget constructors.
NextFull ==
    \/ Initialize
    \/ Terminate
    \/ CreateWindow
    \/ CreateButton
    \/ CreateLabel
    \/ CreateTextField
    \/ DestroyWindow
    \/ DestroyWidget

\* windows.c at start-up: g_window_class = 0, no HWND, an empty message queue,
\* no quit request posted.
NoWin32 ==
    [class |-> FALSE, registered |-> FALSE, hwnds |-> {}, last |-> 0, queue |-> <<>>,
     quit |-> FALSE]

\* The state of the process at start-up: the static initialisers (X11 build).
Start ==
    [g_initialized |-> FALSE, g_event_loop_running |-> FALSE, g_display |-> FALSE,
     g_windows |-> [windows |-> <<>>, capacity |-> 0, storage |-> FALSE],
     window |-> <<>>, widget |-> <<>>, alloc |-> {}, xwindows |-> {}, xqueue |-> <<>>,
     fault |-> {}, platform |-> "linux", win32 |-> NoWin32]

InitFrom(S, h, b) ==
    /\ g_initialized = S.g_initialized
    /\ g_event_loop_running = S.g_event_loop_running
    /\ g_display = S.g_display
    /\ g_windows = S.g_windows
    /\ window = S.window
    /\ widget = S.widget
    /\ alloc = S.alloc
    /\ xwindows = S.xwindows
    /\ xqueue = S.xqueue
    /\ fault = S.fault
    /\ platform = S.platform
    /\ win32 = S.win32
    /\ handles = h
    /\ budget = b
    /\ pump = Idle
    /\ run = NotRunning

Budget ==
    [windows |-> MaxNewWindows, widgets |-> MaxNewWidgets, initialize |-> MaxInitialize,
     events |-> 0, calls |-> 0]

Init == InitFrom(Start, [windows |-> {}, widgets |-> {}], Budget)

Spec == Init /\ [][Next]_vars

(***************************************************************************)
(* Starts at the capacity edge, built with the calls themselves.           *)
(* FullRegistry: the process after LG_Initialize and WINDOW_LIST_CAPACITY  *)
(* successful LG_CreateWindow calls; the application goes on with the last *)
(* window.  FullCollection: the process after LG_Initialize, one           *)
(* LG_CreateWindow and WIDGET_LIST_CAPACITY successful LG_CreateButton     *)
(* calls; the application goes on with the window and the last button.     *)
(***************************************************************************)
RECURSIVE CreateWindows(_, _)
CreateWindows(H, n) ==
    IF n = 0 THEN H ELSE CreateWindows(LG_CreateWindow(H, "none", FALSE).H, n - 1)

RECURSIVE CreateButtons(_, _, _)
CreateButtons(H, w, n) ==
    IF n = 0 THEN H
    ELSE CreateButtons(LG_CreateWidget(H, LG_WIDGET_BUTTON, w, "OK", "none").H, w, n - 1)

FullRegistry == CreateWindows(LG_Initialize(Start, "none").H, WINDOW_LIST_CAPACITY)

FullCollection ==
    CreateButtons(CreateWindows(LG_Initialize(Start, "none").H, 1), 1,
                  WIDGET_LIST_CAPACITY)

InitFull ==
    \/ InitFrom(FullRegistry, [windows |-> {WINDOW_LIST_CAPACITY}, widgets |-> {}],
                [Budget EXCEPT !.widgets = 0])
    \/ InitFrom(FullCollection, [windows |-> {1}, widgets |-> {WIDGET_LIST_CAPACITY}],
                [Budget EXCEPT !.windows = 0])

SpecFull == InitFull /\ [][NextFull]_vars

(***************************************************************************)
(* The event pump: the process after LG_Initialize, LG_CreateWindow, two   *)
(* LG_CreateButton on the window and LG_SetEventCallback on it.            *)
(***************************************************************************)
Populated ==
    LG_SetEventCallback(
        CreateButtons(CreateWindows(LG_Initialize(Start, "none").H, 1), 1, 2),
        1, CHOOSE callback \in Callbacks : TRUE, NULL)

InitEvents ==
    InitFrom(Populated, [windows |-> {1}, widgets |-> {1, 2}],
             [windows |-> 0, widgets |-> 0, initialize |-> 0, events |-> MaxEvents, calls |-> 0])

NextEvents ==
    \/ XEvent
    \/ ProcessEvents
    \/ NextEvent
    \/ CallbackReturn
    \/ SetEventCallback
    \/ DestroyWindow
    \/ DestroyWidget
    \/ Terminate

SpecEvents == InitEvents /\ [][NextEvents]_vars

(***************************************************************************)
(* The event pump at the capacity edge: FullCollection with the callback   *)
(* registered; the application can create one more button.                 *)
(***************************************************************************)
InitFullEvents ==
    InitFrom(LG_SetEventCallback(FullCollection, 1, CHOOSE callback \in Callbacks : TRUE,
                                 NULL),
             [windows |-> {1}, widgets |-> {WIDGET_LIST_CAPACITY}],
             [windows |-> 0, widgets |-> 1, initialize |-> 0, events |-> 1, calls |-> 0])

NextFullEvents ==
    \/ XEvent
    \/ ProcessEvents
    \/ NextEvent
    \/ CallbackReturn
    \/ SetEventCallback
    \/ DestroyWindow
    \/ DestroyWidget
    \/ Terminate
    \/ CreateButton

SpecFullEvents == InitFullEvents /\ [][NextFullEvents]_vars

(***************************************************************************)
(* The event pump of either backend on one window: the process after       *)
(* LG_Initialize, LG_CreateWindow and LG_SetEventCallback, built for X11   *)
(* or for Win32.  The application shows, hides and destroys the window and *)
(* changes its callback; the window system sends close, resize and (Win32) *)
(* mouse events.                                                           *)
(***************************************************************************)
Backends == {"linux", "win32"}

OneWindow(backend) ==
    LG_SetEventCallback(
        CreateWindows(LG_Initialize([Start EXCEPT !.platform = backend], "none").H, 1),
        1, CHOOSE callback \in Callbacks : TRUE, NULL)

InitWindows ==
    \E backend \in Backends :
        InitFrom(OneWindow(backend), [windows |-> {1}, widgets |-> {}],
                 [windows |-> 0, widgets |-> 0, initialize |-> 0, events |-> MaxEvents, calls |-> 0])

NextWindows ==
    \/ XStructureEvent
    \/ PostMessage
    \/ ProcessEvents
    \/ NextEvent
    \/ CallbackReturn
    \/ SetEventCallbackAndData
    \/ ShowWindow
    \/ HideWindow
    \/ DestroyWindow

SpecWindows == InitWindows /\ [][NextWindows]_vars

(***************************************************************************)
(* The window API of either backend from process start-up: LG_Initialize,  *)
(* LG_Terminate, LG_CreateWindow, LG_DestroyWindow, LG_ShowWindow,         *)
(* LG_HideWindow, LG_SetEventCallback and the event pump with one          *)
(* structure event of the window system.                                   *)
(***************************************************************************)
\* Two windows, so that a call on one can be told from a change of the other.
ShowHideWindows == 2

InitVisible ==
    \E backend \in Backends :
        InitFrom([Start EXCEPT !.platform = backend], [windows |-> {}, widgets |-> {}],
                 [windows |-> ShowHideWindows, widgets |-> 0, initialize |-> 1,
                  events |-> 1, calls |-> 0])

NextVisible ==
    \/ Initialize
    \/ Terminate
    \/ CreateWindow
    \/ DestroyWindow
    \/ ShowWindow
    \/ HideWindow
    \/ SetEventCallback
    \/ XStructureEvent
    \/ PostMessage
    \/ ProcessEvents
    \/ NextEvent
    \/ CallbackReturn

SpecVisible == InitVisible /\ [][NextVisible]_vars

(***************************************************************************)
(* Widget properties on either backend: the process after LG_Initialize,   *)
(* LG_CreateWindow, LG_CreateLabel with "" and LG_CreateButton with "OK".  *)
(* The application sets texts and properties, reads texts, destroys        *)
(* widgets and terminates.                                                 *)
(***************************************************************************)
Furnished(backend) ==
    LET H0 == CreateWindows(LG_Initialize([Start EXCEPT !.platform = backend], "none").H, 1)
        H1 == LG_CreateWidget(H0, LG_WIDGET_LABEL, 1, "", "none").H
    IN LG_CreateWidget(H1, LG_WIDGET_BUTTON, 1, "OK", "none").H

\* Setter calls the application makes.
WidgetCalls == 3

InitWidgets ==
    \E backend \in Backends :
        InitFrom(Furnished(backend), [windows |-> {1}, widgets |-> {1, 2}],
                 [windows |-> 0, widgets |-> 0, initialize |-> 0, events |-> 0,
                  calls |-> WidgetCalls])

NextWidgets ==
    \/ SetWidgetText
    \/ SetWidgetProperty
    \/ GetWidgetText
    \/ DestroyWidget
    \/ Terminate

SpecWidgets == InitWidgets /\ [][NextWidgets]_vars

(***************************************************************************)
(* The pointer on either backend: the process after LG_Initialize, two     *)
(* LG_CreateWindow, a button, a label and a text field on the first window *)
(* and LG_SetEventCallback on both windows.  The window system sends       *)
(* pointer events and size notifications and the application pumps them.   *)
(***************************************************************************)
Pointed(backend) ==
    LET H0 == CreateWindows(LG_Initialize([Start EXCEPT !.platform = backend], "none").H, 2)
        H1 == LG_CreateWidget(H0, LG_WIDGET_BUTTON, 1, "OK", "none").H
        H2 == LG_CreateWidget(H1, LG_WIDGET_LABEL, 1, "Hello", "none").H
        H3 == LG_CreateWidget(H2, LG_WIDGET_TEXTFIELD, 1, "", "none").H
        callback == CHOOSE c \in Callbacks : TRUE
    IN LG_SetEventCallback(LG_SetEventCallback(H3, 1, callback, NULL), 2, callback, NULL)

InitPointer ==
    \E backend \in Backends :
        InitFrom(Pointed(backend), [windows |-> {1, 2}, widgets |-> {1, 2, 3}],
                 [windows |-> 0, widgets |-> 0, initialize |-> 0,
                  events |-> PointerEvents, calls |-> 0])

NextPointer ==
    \/ PointerEvent
    \/ PointerMessage
    \/ ConfigureEvent
    \/ SizeMessage
    \/ ProcessEvents
    \/ NextEvent
    \/ CallbackReturn

SpecPointer == InitPointer /\ [][NextPointer]_vars

(***************************************************************************)
(* Repeated LG_Initialize / LG_Terminate on either backend: the lifecycle  *)
(* calls from process start-up, with one initialization more than Spec.    *)
(***************************************************************************)
Cycles == MaxInitialize + 1

InitCycles ==
    \E backend \in Backends :
        InitFrom([Start EXCEPT !.platform = backend], [windows |-> {}, widgets |-> {}],
                 [Budget EXCEPT !.initialize = Cycles])

SpecCycles == InitCycles /\ [][Next]_vars

(***************************************************************************)
(* The run loop of either backend on two windows with a callback each: the *)
(* application calls LG_Run and, from its callbacks, LG_DestroyWindow.     *)
(* LG_Run is sequential code: once the pump has returned, the render loop  *)
(* and the sleep go on without waiting for anything.                       *)
(***************************************************************************)
TwoWindows(backend) ==
    LET H == CreateWindows(LG_Initialize([Start EXCEPT !.platform = backend], "none").H, 2)
        callback == CHOOSE c \in Callbacks : TRUE
    IN LG_SetEventCallback(LG_SetEventCallback(H, 1, callback, NULL), 2, callback, NULL)

InitRun ==
    \E backend \in Backends :
        InitFrom(TwoWindows(backend), [windows |-> {1, 2}, widgets |-> {}],
                 [windows |-> 0, widgets |-> 0, initialize |-> 0, events |-> MaxEvents, calls |-> 0])

NextRun ==
    \/ Run
    \/ NextEvent
    \/ CallbackReturn
    \/ RunRender
    \/ RunSleep
    \/ XStructureEvent
    \/ PostMessage
    \/ DestroyWindow

SpecRun == InitRun /\ [][NextRun]_vars /\ WF_vars(RunRender) /\ WF_vars(RunSleep)

(***************************************************************************)
(* The Win32 run loop with input: on two windows with a callback each the  *)
(* application pumps with LG_Run or LG_ProcessEvents and calls             *)
(* LG_DestroyWindow from its callbacks or between pumps, while the system  *)
(* posts messages and the pointer brings about input messages.             *)
(***************************************************************************)
InitInput ==
    InitFrom(TwoWindows("win32"), [windows |-> {1, 2}, widgets |-> {}],
             [windows |-> 0, widgets |-> 0, initialize |-> 0, events |-> MaxEvents,
              calls |-> 0])

NextInput ==
    \/ Run
    \/ ProcessEvents
    \/ NextEvent
    \/ CallbackReturn
    \/ RunRender
    \/ RunSleep
    \/ PostMessage
    \/ PointerMessage
    \/ DestroyWindow

SpecInput == InitInput /\ [][NextInput]_vars

(***************************************************************************)
(* The run loop with a request to quit: on two windows with a callback     *)
(* each the application calls LG_Run and, from a callback or outside the   *)
(* loop, LG_QuitEventLoop once.  The loop is sequential code and the       *)
(* callbacks return: every step of LG_Run that can be taken is taken.      *)
(***************************************************************************)
QuitCalls == 1

InitQuit ==
    \E backend \in Backends :
        InitFrom(TwoWindows(backend), [windows |-> {1, 2}, widgets |-> {}],
                 [windows |-> 0, widgets |-> 0, initialize |-> 0, events |-> MaxEvents,
                  calls |-> QuitCalls])

NextQuit ==
    \/ Run
    \/ NextEvent
    \/ CallbackReturn
    \/ RunRender
    \/ RunSleep
    \/ XStructureEvent
    \/ PostMessage
    \/ QuitEventLoop

SpecQuit ==
    /\ InitQuit
    /\ [][NextQuit]_vars
    /\ WF_vars(NextEvent) /\ WF_vars(CallbackReturn)
    /\ WF_vars(RunRender) /\ WF_vars(RunSleep)

(***************************************************************************)
(* Properties                                                              *)
(***************************************************************************)
Allocated(kind, id) == <<kind, id>> \in alloc

Registry == SeqToSet(g_windows.windows)

Occurrences(s, x) == Cardinality({i \in 1..Len(s) : s[i] = x})

\* A window is live between its creation and LG_DestroyWindow: the struct is
\* allocated and its native window exists on the server.
LiveWindow(w) ==
    /\ Allocated("Window", w)
    /\ window[w].platform_data # NULL
    /\ <<window[w].data.window, 0>> \in xwindows

\* A destroyed window: a handle the application holds whose struct was freed.
DestroyedWindow(w) == w \in handles.windows /\ ~Allocated("Window", w)

\* C1: after LG_DestroyWindow(W) on a live window, every widget that was in W's
\* collection has been destroyed (payload torn down, memory released) and W is
\* no longer in the registry.  As a property of every state without undefined
\* behaviour: no widget of a destroyed window is still allocated, and no
\* destroyed window is in the registry.
C1_DestroyWindowDestroysItsWidgets ==
    (fault = {} /\ g_initialized) =>
        /\ \A d \in 1..Len(widget) :
              ~Allocated("Window", widget[d].window) =>
                  /\ ~Allocated("Widget", d)
                  /\ ~Allocated("WidgetData", d)
                  /\ ~Allocated("text", d)
        /\ \A w \in handles.windows : DestroyedWindow(w) => w \notin Registry

\* C2: LG_Terminate destroys every live window (and its widgets) before it
\* empties the registry and tears down the backend: once the framework is
\* uninitialized again, no window is still alive (struct or platform payload);
\* the widgets of a destroyed window are the subject of C1.
C2_TerminateDestroysEveryWindow ==
    (fault = {} /\ ~g_initialized) =>
        \A w \in handles.windows : ~Allocated("Window", w) /\ ~Allocated("WindowData", w)

\* C3: registry consistency.  The reverse lookup by native window identity gives,
\* for every live window, exactly that window's handle, and nothing for the
\* native identity of a destroyed window; the registry holds each live window
\* exactly once.
C3_RegistryConsistency ==
    fault = {} =>
        /\ \A w \in handles.windows :
              LiveWindow(w) =>
                  /\ FindWindowByHandle(State, window[w].data.window) = w
                  /\ Occurrences(g_windows.windows, w) = 1
        /\ \A w \in handles.windows :
              DestroyedWindow(w) =>
                  FindWindowByHandle(State, window[w].data.window) = NULL

\* C3 witness: a window was destroyed out of the middle of the registry (a
\* later-created window took its slot) and the lookup still finds the live one.
C3_Witness ==
    /\ fault = {}
    /\ \E w1, w2 \in handles.windows :
          /\ w1 < w2
          /\ DestroyedWindow(w1)
          /\ LiveWindow(w2)
          /\ g_windows.windows = <<w2>>

\* C4: widget membership.  Every live widget handle returned by a Create* call
\* occurs exactly once in the collection of the window named by its
\* back-reference, and a collection holds no widget of another window.
C4_WidgetMembership ==
    fault = {} =>
        /\ \A d \in handles.widgets :
              (Allocated("Widget", d) /\ Allocated("Window", widget[d].window)) =>
                  Occurrences(window[widget[d].window].widgets, d) = 1
        /\ \A w \in handles.windows :
              Allocated("Window", w) =>
                  \A d \in SeqToSet(window[w].widgets) : widget[d].window = w

\* The failure points a Create<Widget> call on window w reaches.
WidgetFailureReached(w, fail) ==
    /\ fail # "none"
    /\ fail = "realloc" => Len(window[w].widgets) >= window[w].capacity

\* C5: if any step of LG_CreateButton / LG_CreateLabel / LG_CreateTextField fails
\* (widget allocation, text duplication, native control creation, growth of the
\* window's collection), the call returns null and nothing it allocated remains
\* allocated or reachable from the window's collection.
C5_FailedWidgetCreationUnwinds ==
    (fault = {} /\ g_initialized) =>
        \A type \in {LG_WIDGET_BUTTON, LG_WIDGET_LABEL, LG_WIDGET_TEXTFIELD},
           w \in handles.windows, text \in Texts, fail \in WidgetFailures :
            (LiveWindow(w) /\ WidgetFailureReached(w, fail)) =>
                LET C == LG_CreateWidget(State, type, w, text, fail)
                IN /\ C.ret = NULL
                   /\ C.H.alloc = alloc
                   /\ C.H.xwindows = xwindows
                   /\ C.H.window = window

\* C6: if any step of LG_CreateWindow fails (window allocation, title
\* duplication, widget-collection allocation, native window creation, registry
\* growth), the call returns null, the registry is as before the call, and no
\* native window or platform payload created by the call survives.
C6_FailedWindowCreationUnwinds ==
    (fault = {} /\ g_initialized) =>
        \A fail \in WindowFailures \ {"none"}, ownfont \in BOOLEAN :
            (fail = "registry" => Len(g_windows.windows) >= g_windows.capacity) =>
                LET C == LG_CreateWindow(State, fail, ownfont)
                IN /\ C.ret = NULL
                   /\ C.H.g_windows = g_windows
                   /\ C.H.alloc = alloc
                   /\ C.H.xwindows = xwindows

\* C7: LG_DestroyWindow with a null handle or with the handle of a window that
\* has already been destroyed is a safe no-op: nothing changes and the
\* destroyed window's memory is neither read nor freed again.
C7_DestroyWindowTwiceIsNoOp ==
    (fault = {} /\ g_initialized) =>
        \A w \in handles.windows \cup {NULL} :
            (w = NULL \/ DestroyedWindow(w)) => LG_DestroyWindow(State, w) = State

\* C8: after LG_DestroyWindow(W), LG_DestroyWidget on any widget handle that
\* belonged to W is a safe no-op: no collection or registry changes, and neither
\* the widget's nor the window's freed memory is accessed or freed again.
C8_DestroyWidgetAfterWindowIsNoOp ==
    (fault = {} /\ g_initialized) =>
        \A d \in handles.widgets :
            DestroyedWindow(widget[d].window) => LG_DestroyWidget(State, d) = State

LiveWidget(d) ==
    /\ Allocated("Widget", d)
    /\ widget[d].platform_data # NULL
    /\ \E xw \in xwindows : xw[1] = widget[d].data.window

\* A left mouse-button press landing inside the native sub-window of widget d.
LeftPressOn(e, d) ==
    /\ e.type = "ButtonPress"
    /\ e.button = 1
    /\ widget[d].data.window # 0
    /\ e.window = widget[d].data.window

\* What the callback of d's window is to be given for the press e, in order.
Clicked(e, d) ==
    [type |-> LG_EVENT_WIDGET_CLICKED, window |-> widget[d].window, widget |-> d,
     button |-> "None", pressed |-> FALSE, x |-> e.x, y |-> e.y]

Pressed(e, d) ==
    [type |-> LG_EVENT_MOUSE_BUTTON, window |-> widget[d].window, widget |-> NULL,
     button |-> LG_MOUSE_BUTTON_LEFT, pressed |-> TRUE, x |-> e.x, y |-> e.y]

\* C9: on X11 a left mouse-button press landing inside a widget's native
\* sub-window makes the owning window's callback receive, in this order and
\* with nothing in between, one widget-clicked event carrying the widget's
\* handle and one mouse-button event with pressed = true, button = left and the
\* same x/y.  Three parts: when the loop takes such a press for a live widget of
\* a live window that has a callback, the callback is called with the
\* widget-clicked event; when that call returns with the window still live and
\* a callback registered, the callback is called with the mouse-button event and
\* nothing follows it; and whatever the callback is given for such a press is
\* a prefix of these two events.
C9_LeftPressOnWidget ==
    fault = {} =>
        \A d \in handles.widgets :
            LET w == widget[d].window
            IN /\ (/\ pump.pc = "loop"
                   /\ xqueue # <<>>
                   /\ LeftPressOn(Head(xqueue), d)
                   /\ LiveWidget(d)
                   /\ LiveWindow(w)
                   /\ window[w].event_callback # NULL)
                  => LET C == ProcessNextEvent(State, pump)
                     IN /\ C.H.fault = {}
                        /\ C.P.pc = "callback"
                        /\ C.P.callback = window[w].event_callback
                        /\ C.P.current = Clicked(Head(xqueue), d)
                        /\ C.P.seen = <<Clicked(Head(xqueue), d)>>
               /\ (/\ pump.pc = "callback"
                   /\ LeftPressOn(pump.event, d)
                   /\ pump.seen = <<Clicked(pump.event, d)>>
                   /\ LiveWindow(w)
                   /\ window[w].event_callback # NULL)
                  => LET C == Dispatch(State, pump)
                     IN /\ C.H.fault = {}
                        /\ C.P.pc = "callback"
                        /\ C.P.callback = window[w].event_callback
                        /\ C.P.current = Pressed(pump.event, d)
                        /\ C.P.seen = <<Clicked(pump.event, d), Pressed(pump.event, d)>>
                        /\ C.P.todo = <<>>
               /\ (pump.pc = "callback" /\ LeftPressOn(pump.event, d))
                  => pump.seen \in {<<Clicked(pump.event, d)>>,
                                    <<Clicked(pump.event, d), Pressed(pump.event, d)>>}

\* No normalized event is kept for later: outside a callback the loop body has
\* nothing left to dispatch, and what a callback is given comes from the
\* native event taken last.
NothingQueued ==
    fault = {} =>
        /\ pump.pc \in {"idle", "loop"} => pump.todo = <<>> /\ pump.current = NoEvent
        /\ pump.pc = "callback" =>
              /\ pump.event.serial = pump.taken
              /\ \A i \in 1..Len(pump.seen) :
                    \E j \in 1..Len(Normalize(pump.event, pump.widget)) :
                        pump.seen[i] = [Normalize(pump.event, pump.widget)[j]
                                           EXCEPT !.window = pump.window]

\* A native event is taken from the queue: it is the oldest one, and no
\* callback is running (the one called for the previous native event has
\* returned, and that event has nothing left to dispatch).
TakenInOrder ==
    pump'.taken # pump.taken =>
        /\ pump.pc = "loop"
        /\ pump.callback = NULL /\ pump.current = NoEvent /\ pump.todo = <<>>
        /\ xqueue # <<>>
        /\ pump'.taken = Head(xqueue).serial
        /\ xqueue' = Tail(xqueue)
        /\ \A i \in 1..Len(xqueue') : xqueue'[i].serial > pump'.taken
        /\ pump'.taken > pump.taken

\* A callback is called only by the loop body, for the native event in hand.
CalledFromLoop ==
    (pump'.pc = "callback" /\ pump' # pump) =>
        /\ pump.pc \in {"loop", "callback"}
        /\ pump'.event.serial = pump'.taken
        /\ pump.pc = "callback" => pump'.event = pump.event /\ pump'.taken = pump.taken

ReturnsWhenDrained ==
    (pump.pc # "idle" /\ pump'.pc = "idle") =>
        pump.pc = "loop" /\ xqueue = <<>> /\ xqueue' = <<>>

ZeroOneOrTwo ==
    fault = {} =>
        /\ Len(Normalize(pump.event, pump.widget)) <= 2
        /\ Len(pump.seen) + Len(pump.todo) <= Len(Normalize(pump.event, pump.widget))
        /\ pump.pc = "callback" => Len(pump.seen) >= 1
        /\ Len(pump.seen) = 2 =>
              /\ pump.widget # NULL
              /\ pump.event.type = "ButtonPress"
              /\ pump.event.button = 1
              /\ pump.seen[1].type = LG_EVENT_WIDGET_CLICKED
              /\ pump.seen[2].type = LG_EVENT_MOUSE_BUTTON
        /\ pump.calls <= 2 * pump.native

QuitSignalled ==
    platform = "win32" /\ QuitIsNext(State)

\* C12: LG_ProcessEvents on an initialized framework returns false exactly when
\* the native event stream signals application quit (Win32: WM_QUIT is taken
\* from the queue); every other pump, including every pump on X11 while the
\* display is open, returns true.  Three parts: an initialized framework has
\* its display open on X11; the call on an initialized framework enters the
\* platform loop; and whenever the loop returns, it returns false if it has
\* just taken WM_QUIT and true otherwise.
C12_FalseExactlyOnQuit ==
    fault = {} =>
        /\ (g_initialized /\ platform = "linux") => g_display
        /\ (g_initialized /\ pump.pc = "idle") =>
              LG_ProcessEvents(State, pump).pc = "loop"
        /\ pump.pc = "loop" =>
              LET C == PlatformProcessEvents(State, pump)
              IN (C.H.fault = {} /\ C.P.pc = "idle") => (C.ret = ~QuitSignalled)

\* C12 witness: a Win32 pump that has dispatched a message is about to take
\* WM_QUIT and return false.
C12_Witness ==
    /\ fault = {}
    /\ pump.pc = "loop"
    /\ pump.native >= 1
    /\ QuitSignalled
    /\ ~PlatformProcessEvents(State, pump).ret

\* The native window of w exists in the window system of the backend.
NativeWindowExists(w) ==
    IF platform = "win32" THEN <<window[w].data.hwnd, 0>> \in win32.hwnds
    ELSE <<window[w].data.window, 0>> \in xwindows

\* A live window of either backend: created and not destroyed.
Live(w) ==
    /\ Allocated("Window", w)
    /\ window[w].platform_data # NULL
    /\ Allocated("WindowData", w)
    /\ NativeWindowExists(w)

\* The native window id of a window of either backend.
GetNative(w) == IF platform = "win32" THEN window[w].data.hwnd ELSE window[w].data.window

\* A native resize notification: ConfigureNotify or WM_SIZE.
IsResize(e) == IF platform = "win32" THEN e.message = "WM_SIZE" ELSE e.type = "ConfigureNotify"

\* The native events queued for the backend.
NativeQueue == IF platform = "win32" THEN win32.queue ELSE xqueue

\* While LG_Run renders, the pump has returned, the windows it renders are the
\* live ones (none of them destroyed, none of the live ones left out) and
\* rendering the next one touches nothing that has been freed.
RendersLiveWindows ==
    (fault = {} /\ run.pc = "render") =>
        /\ pump.pc = "idle"
        /\ \A k \in 1..Len(g_windows.windows) :
              Live(g_windows.windows[k]) /\ ~DestroyedWindow(g_windows.windows[k])
        /\ \A w \in handles.windows : Live(w) => Occurrences(g_windows.windows, w) = 1
        /\ run.i < Len(g_windows.windows) =>
              PlatformRenderWindow(State, g_windows.windows[run.i + 1]).fault = {}

\* The steps of LG_Run: the pump until it returns with no native event left
\* (or, on Win32, with WM_QUIT taken ahead of the input that is waiting),
\* then the render loop over the whole registry, then the sleep, then the
\* pump again or, if the pump has returned false, the return.
CycleOrder ==
    run' # run =>
        \/ run.pc = "none" /\ run'.pc \in {"events", "render"}
        \/ /\ run.pc = "events" /\ run'.pc = "render" /\ run'.i = 0
           /\ pump.pc = "loop" /\ pump'.pc = "idle"
           /\ NativeQueue = <<>> \/ QuitSignalled
           /\ run'.running = ~QuitSignalled
        \/ /\ run.pc = "render" /\ run'.pc = "render"
           /\ run.i < Len(g_windows.windows) /\ run'.i = run.i + 1
           /\ run'.running = run.running
        \/ /\ run.pc = "render" /\ run'.pc = "sleep"
           /\ run.i = Len(g_windows.windows)
           /\ run'.running = run.running
        \/ run.pc = "sleep" /\ run.running /\ run'.pc \in {"events", "render"}
        \/ run.pc = "sleep" /\ ~run.running /\ run'.pc = "none"

\* Once the pump has returned false, LG_Run returns (unless the process stops).
ReturnsAfterQuit ==
    (run.pc = "render" /\ ~run.running) ~> (run.pc = "none" \/ fault # {})

\* C13: LG_Run repeats the cycle 'drain all pending native events, then render
\* every currently-live window, then sleep' and returns once the platform
\* signals quit; it never renders a window that has been destroyed.
C13_RunLoopCycle ==
    []RendersLiveWindows /\ [][CycleOrder]_vars /\ ReturnsAfterQuit

\* C13 witness: LG_Run has returned after a pump that dispatched events, in
\* which a callback destroyed window 1 (the quit signal of Win32), and after
\* rendering the window that was left.
C13_Witness ==
    /\ fault = {}
    /\ run.pc = "none" /\ ~run.running
    /\ pump.taken >= 1
    /\ DestroyedWindow(1)
    /\ Live(2)

\* The native event at the head of the queue is for the native window of w.
HeadFor(w) ==
    /\ NativeQueue # <<>>
    /\ IF platform = "win32" THEN Head(NativeQueue).hwnd = window[w].data.hwnd
       ELSE Head(NativeQueue).window = window[w].data.window

\* LG_SetEventCallback on a live window stores the two pointers as given and
\* changes nothing else.
StoresVerbatim ==
    (fault = {} /\ g_initialized) =>
        \A w \in handles.windows, c \in Handlers \cup {NULL}, u \in Pointers :
            Live(w) =>
                LG_SetEventCallback(State, w, c, u)
                    = [State EXCEPT !.window[w].event_callback = c,
                                    !.window[w].user_data = u]

\* When the loop takes an event of a live window: with a callback stored it
\* calls that callback with the stored user data and the window as the
\* event's window; with a null callback stored it calls nothing.
DispatchesToStoredPair ==
    (fault = {} /\ pump.pc = "loop") =>
        \A w \in handles.windows :
            (Live(w) /\ HeadFor(w)) =>
                LET C == PlatformProcessEvents(State, pump)
                IN IF window[w].event_callback # NULL
                   THEN /\ C.P.pc = "callback"
                        /\ C.P.callback = window[w].event_callback
                        /\ C.P.user_data = window[w].user_data
                        /\ C.P.current.window = w
                   ELSE C.P.pc = "loop" /\ C.P.calls = pump.calls

\* Every call of a callback, the second one for the same native event
\* included, is a call of the pair stored in the window at that time.
CallsStoredPair ==
    (pump'.pc = "callback" /\ pump'.seen # pump.seen) =>
        /\ pump'.callback # NULL
        /\ pump'.callback = window[pump'.window].event_callback
        /\ pump'.user_data = window[pump'.window].user_data
        /\ pump'.current.window = pump'.window

\* The stored pair of a window changes only by LG_SetEventCallback on it.
StoredPairSetOnlyBySet ==
    \A w \in handles.windows :
        (/\ Allocated("Window", w)
         /\ <<window'[w].event_callback, window'[w].user_data>>
                # <<window[w].event_callback, window[w].user_data>>)
        => \E c \in Handlers \cup {NULL}, u \in Pointers :
               window' = LG_SetEventCallback(State, w, c, u).window

\* C14: LG_SetEventCallback stores the callback and user-data pointers
\* verbatim, replacing any earlier pair: every event dispatched afterwards to
\* that window invokes the latest callback with the latest user data, and
\* while the stored callback is null no callback is invoked for that window's
\* events.
C14_LatestCallbackAndData ==
    /\ [](StoresVerbatim /\ DispatchesToStoredPair)
    /\ [][CallsStoredPair /\ StoredPairSetOnlyBySet]_vars

\* C14 witness: the pair the window was given first (callback 1, null user
\* data) has been replaced, and the callback running is the new one with the
\* new user data.
C14_Witness ==
    /\ fault = {}
    /\ pump.pc = "callback"
    /\ pump.callback = 2
    /\ pump.user_data = 1
    /\ window[pump.window].event_callback = 2

\* A window LG_CreateWindow returns is in the registry, once, and its visible
\* flag is false.
CreatedInvisible ==
    (fault = {}) =>
        \A fail \in WindowFailures, ownfont \in BOOLEAN :
            LET C == LG_CreateWindow(State, fail, ownfont)
            IN (C.ret # NULL /\ C.H.fault = {}) =>
                   /\ Occurrences(C.H.g_windows.windows, C.ret) = 1
                   /\ C.H.window[C.ret].visible = FALSE

\* LG_ShowWindow on a live window leaves the flag true and LG_HideWindow
\* leaves it false, whatever it was.
ShowSetsHideClears ==
    (fault = {} /\ g_initialized) =>
        \A w \in handles.windows :
            Live(w) => /\ LG_ShowWindow(State, w).window[w].visible = TRUE
                       /\ LG_HideWindow(State, w).window[w].visible = FALSE

\* The flag of a window that stays live changes only in a step that is
\* LG_ShowWindow or LG_HideWindow on that window.
VisibleChangesOnlyByShowHide ==
    \A w \in handles.windows :
        (Live(w) /\ Live(w)' /\ window'[w].visible # window[w].visible)
        => \/ Commit(LG_ShowWindow(State, w))
           \/ Commit(LG_HideWindow(State, w))

\* C15: a window returned by LG_CreateWindow is in the registry with visible
\* = false; thereafter its visible flag is true exactly when the last of its
\* LG_ShowWindow/LG_HideWindow calls was LG_ShowWindow, for any number of
\* Show/Hide calls in any order, and no other operation changes the flag.
C15_VisibleFollowsLastShowHide ==
    /\ [](CreatedInvisible /\ ShowSetsHideClears)
    /\ [][VisibleChangesOnlyByShowHide]_vars

\* C15 witness: two live windows, one shown and one not, while
\* a callback of the pump is running.
C15_Witness ==
    /\ fault = {}
    /\ pump.pc = "callback"
    /\ \E v, w \in handles.windows :
          /\ Live(v) /\ window[v].visible
          /\ Live(w) /\ ~window[w].visible

\* The step calls a callback with a window-close event.
CloseDispatched ==
    /\ pump'.pc = "callback"
    /\ pump'.seen # pump.seen
    /\ pump'.current.type = LG_EVENT_WINDOW_CLOSE

\* The Shown state of a window: created, visible flag true, not destroyed.
Shown(w) == Live(w) /\ window[w].visible

\* C16: a window-close event is dispatched to a window's callback only while
\* that window is in the Shown state (created, visible flag true, not
\* destroyed).
C16_CloseOnlyWhileShown == [][CloseDispatched => Shown(pump'.window)]_vars

\* The step calls a callback with a window-resize event.
ResizeDispatched ==
    /\ pump'.pc = "callback"
    /\ pump'.seen # pump.seen
    /\ pump'.current.type = LG_EVENT_WINDOW_RESIZE

\* The native window a queued native event is addressed to.
Addressee(e) == IF platform = "win32" THEN e.hwnd ELSE e.window

\* No live window has the native window id.
Destroyed(id) == \A w \in handles.windows : Live(w) => GetNative(w) # id

\* The loop takes a resize notification addressed to a destroyed window: no
\* callback is called and no window changes.
DestroyedResizeIsDropped ==
    (fault = {} /\ pump.pc = "loop" /\ NativeQueue # <<>>) =>
        LET e == Head(NativeQueue)
            C == PlatformProcessEvents(State, pump)
        IN (IsResize(e) /\ Destroyed(Addressee(e))) =>
               /\ C.P.pc = "loop"
               /\ C.P.calls = pump.calls
               /\ C.H.window = window
               /\ C.H.fault = {}

\* C17: a window-resize event is dispatched only to a window that is live
\* (Shown or Hidden); a native resize notification for a window that has been
\* destroyed resolves to no logical window and its callback is not invoked.
C17_ResizeOnlyToLiveWindow ==
    /\ [][ResizeDispatched => Live(pump'.window)]_vars
    /\ []DestroyedResizeIsDropped

\* C17 witness: a resize has been dispatched to the window and applied, the
\* window has been destroyed since, and the loop is about to take a further
\* resize notification addressed to it.
C17_Witness ==
    /\ fault = {}
    /\ pump.pc = "loop"
    /\ pump.calls > 0
    /\ NativeQueue # <<>>
    /\ IsResize(Head(NativeQueue))
    /\ Destroyed(Addressee(Head(NativeQueue)))
    /\ \E w \in handles.windows : ~Allocated("Window", w) /\ window[w].width = 5

\* C18: calling LG_Initialize while the framework is already initialized
\* returns true and leaves the registry storage, its count and capacity, and
\* every live window and widget unchanged; the platform backend is not
\* brought up a second time.
C18_InitializeAgainIsNoOp ==
    (fault = {} /\ g_initialized) =>
        \A fail \in InitializeFailures :
            LG_Initialize(State, fail) = [ret |-> TRUE, H |-> State]

\* C18 witness: the framework is initialized, two windows are in the registry,
\* one of them live with a widget, and the application can call LG_Initialize.
C18_Witness ==
    /\ fault = {}
    /\ g_initialized
    /\ budget.initialize > 0
    /\ Len(g_windows.windows) = 2
    /\ \E w \in handles.windows : Live(w) /\ window[w].widgets # <<>>

\* C19: calling LG_Terminate while the framework is not initialized (never
\* initialized, initialization failed, or already terminated) changes no
\* state: the registry and platform backend are untouched and the framework
\* stays uninitialized.
C19_TerminateUninitializedIsNoOp ==
    (fault = {} /\ ~g_initialized) => LG_Terminate(State) = State

\* C19 witness: the framework has been terminated after windows were created,
\* and a later LG_Initialize has failed on the allocation of the registry.
C19_Witness ==
    /\ fault = {}
    /\ ~g_initialized
    /\ Len(window) > 0
    /\ g_windows.capacity = WINDOW_LIST_CAPACITY

\* The registry lookup of the backend for a native window id.
PlatformFindWindow(H, id) ==
    IF H.platform = "win32" THEN FindWindowByHwnd(H, id) ELSE FindWindowByHandle(H, id)

\* The native window id of window w in H.
NativeOf(H, w) ==
    IF H.platform = "win32" THEN GetWindowHwnd(H, w) ELSE GetWindowHandle(H, w)

\* With no failure of the platform or of malloc, LG_Initialize on H returns
\* true and yields an empty registry of capacity 10 in which a window can be
\* created and looked up.
InitializesAfresh(H) ==
    LET I == LG_Initialize(H, "none")
        W == LG_CreateWindow(I.H, "none", FALSE)
    IN /\ I.ret
       /\ I.H.g_initialized
       /\ I.H.g_windows = [windows |-> <<>>, capacity |-> WINDOW_LIST_CAPACITY,
                           storage |-> TRUE]
       /\ W.ret # NULL
       /\ W.H.g_windows.windows = <<W.ret>>
       /\ PlatformFindWindow(W.H, NativeOf(W.H, W.ret)) = W.ret
       /\ W.H.fault = {}

\* C20: after LG_Terminate the global state is fully reset, so a following
\* LG_Initialize behaves like the first one: it returns true on platform
\* success and yields an empty registry (count 0, capacity 10) in which
\* windows can be created and looked up again, for any number of
\* Initialize/Terminate cycles.
C20_TerminateThenInitialize ==
    (fault = {} /\ g_initialized) =>
        LET T == LG_Terminate(State)
        IN T.fault = {} =>
               /\ ~T.g_initialized
               /\ T.g_windows = Start.g_windows
               /\ ~T.g_display
               /\ InitializesAfresh(T)

\* C21: when LG_Initialize fails (platform backend cannot start, or registry
\* storage cannot be allocated) it returns false, the framework stays
\* uninitialized, the platform backend is torn down again, and no partial
\* state survives: the registry's storage, count and capacity equal their
\* values before the call.
C21_FailedInitializeLeavesNothing ==
    (fault = {} /\ ~g_initialized) =>
        \A fail \in InitializeFailures \cup {"instance", "class"} :
            LET C == LG_Initialize(State, fail)
            IN ~C.ret =>
                   /\ ~C.H.g_initialized
                   /\ C.H.g_display = g_display
                   /\ C.H.win32 = win32
                   /\ C.H.alloc = alloc
                   /\ C.H.xwindows = xwindows
                   /\ C.H.g_windows.storage = g_windows.storage
                   /\ C.H.g_windows.windows = g_windows.windows
                   /\ C.H.g_windows.capacity = g_windows.capacity
                   /\ C.H.fault = {}

\* A live widget of either backend: created and not destroyed.
IsLiveWidget(d) ==
    /\ Allocated("Widget", d)
    /\ widget[d].platform_data # NULL
    /\ Allocated("WidgetData", d)

\* The result G of LG_GetWidgetText is the count and the bytes of text.
Yields(G, text) ==
    /\ G.ret = Len(Bytes(text))
    /\ SubSeq(G.buffer, 1, G.ret) = Bytes(text)
    /\ G.buffer[G.ret + 1] = NUL

\* C22: text round-trip: for every widget created with non-null text T,
\* LG_GetWidgetText into a buffer larger than |T| returns |T| and yields
\* exactly T; after LG_SetWidgetText(w, T2) with non-null T2 it returns |T2|
\* and yields exactly T2, and the text of every other widget is unchanged.
C22_TextRoundTrip ==
    (fault = {} /\ g_initialized) =>
        /\ \A type \in {LG_WIDGET_BUTTON, LG_WIDGET_LABEL, LG_WIDGET_TEXTFIELD},
              w \in handles.windows, T \in NewTexts \ {NoText} :
              LET C == LG_CreateWidget(State, type, w, T, "none")
              IN (Live(w) /\ C.ret # NULL) =>
                     Yields(LG_GetWidgetText(C.H, C.ret, Memory, Len(Memory) - 1), T)
        /\ \A d \in handles.widgets, T2 \in NewTexts \ {NoText}, fail \in SetterFailures :
              IsLiveWidget(d) =>
                  LET S == LG_SetWidgetText(State, d, T2, fail)
                  IN /\ Yields(LG_GetWidgetText(S, d, Memory, Len(Memory) - 1), T2)
                     /\ \A e \in handles.widgets \ {d} : S.widget[e].text = widget[e].text

\* The bytes of the text of widget d; none for the null pointer.
TextOf(d) == IF widget[d].text = NoText THEN <<>> ELSE Bytes(widget[d].text)

\* C23: LG_GetWidgetText(w, buffer, N) on a live widget with text of length
\* L and N >= 1 writes exactly min(L, N-1) text bytes followed by a
\* terminating zero, never touches a buffer index >= N, and returns
\* min(L, N-1); when the framework is uninitialized, the widget or buffer is
\* null, or N is 0, it returns -1 and writes nothing.
C23_GetWidgetTextBounded ==
    (fault = {}) =>
        \A d \in handles.widgets \cup {NULL}, N \in BufferSizes,
           buffer \in {Memory, NoBuffer} :
            LET G == LG_GetWidgetText(State, d, buffer, N)
            IN IF ~g_initialized \/ d = NULL \/ buffer = NoBuffer \/ N = 0
               THEN G.ret = -1 /\ G.buffer = buffer /\ G.H = State
               ELSE IsLiveWidget(d) =>
                        LET L == Len(TextOf(d))
                            m == IF L < N - 1 THEN L ELSE N - 1
                        IN /\ G.ret = m
                           /\ SubSeq(G.buffer, 1, m) = SubSeq(TextOf(d), 1, m)
                           /\ G.buffer[m + 1] = NUL
                           /\ \A i \in (m + 2)..Len(Memory) : G.buffer[i] = Memory[i]
                           /\ G.H = State

\* C23 witness: a live widget whose text, set by LG_SetWidgetText, is longer
\* than some of the buffer sizes.
C23_Witness ==
    /\ fault = {}
    /\ g_initialized
    /\ \E d \in handles.widgets : IsLiveWidget(d) /\ widget[d].text = "Hello"

\* C24: LG_SetWidgetText with null text is a no-op: the widget's text and
\* every other field are unchanged and the platform backend is not asked to
\* update the widget.
C24_SetNullTextIsNoOp ==
    (fault = {}) =>
        \A d \in handles.widgets \cup {NULL}, fail \in SetterFailures :
            LG_SetWidgetText(State, d, NoText, fail) = State

\* C24 witness: a live label whose text and position have been changed, so
\* that an update of the native control by the call would be seen.
C24_Witness ==
    /\ fault = {}
    /\ g_initialized
    /\ \E d \in handles.widgets :
          /\ IsLiveWidget(d)
          /\ widget[d].text = "OK"
          /\ widget[d].type = LG_WIDGET_LABEL
          /\ widget[d].rect.x = 3

\* C25: for every live widget the text field is a valid, non-null owned
\* string in every reachable state, after any sequence of creations and
\* LG_SetWidgetText calls, including a LG_SetWidgetText call in which
\* duplicating the new text fails.
C25_TextAlwaysOwned ==
    (fault = {}) =>
        \A d \in handles.widgets :
            IsLiveWidget(d) => widget[d].text # NoText /\ Allocated("text", d)

\* Every call of the widget operations on handle d leaves the state H alone
\* and LG_GetWidgetText answers -1 with the buffer as it was.
WidgetCallsDoNothing(H, d) ==
    /\ LG_DestroyWidget(H, d) = H
    /\ \A text \in NewTexts, fail \in SetterFailures :
          LG_SetWidgetText(H, d, text, fail) = H
    /\ \A p \in Properties, fail \in SetterFailures :
          LG_SetWidget(H, d, p[1], p[2], fail) = H
    /\ \A N \in BufferSizes :
          LET G == LG_GetWidgetText(H, d, Memory, N)
          IN G.ret = -1 /\ G.buffer = Memory /\ G.H = H

\* Every call of the window operations on handle w leaves the state H alone
\* and the constructors of widgets answer null.
WindowCallsDoNothing(H, w) ==
    /\ LG_DestroyWindow(H, w) = H
    /\ LG_ShowWindow(H, w) = H
    /\ LG_HideWindow(H, w) = H
    /\ LG_RenderWindow(H, w) = H
    /\ \A callback \in Handlers, user_data \in Pointers :
          LG_SetEventCallback(H, w, callback, user_data) = H
    /\ \A type \in {LG_WIDGET_BUTTON, LG_WIDGET_LABEL, LG_WIDGET_TEXTFIELD},
          text \in NewTexts, fail \in WidgetFailures :
          LET C == LG_CreateWidget(H, type, w, text, fail)
          IN C.ret = NULL /\ C.H = H

\* The calls without a handle do nothing: no window is made, LG_Terminate
\* changes nothing, LG_ProcessEvents and LG_Run do not go into the backend.
GlobalCallsDoNothing(H, P) ==
    /\ \A fail \in WindowFailures, ownfont \in BOOLEAN :
          LET C == LG_CreateWindow(H, fail, ownfont)
          IN C.ret = NULL /\ C.H = H
    /\ LG_Terminate(H) = H
    /\ LG_ProcessEvents(H, P) = P
    /\ EnterPump(H, P).P = P
    /\ EnterPump(H, P).run.pc = "none"

\* C26: every public operation other than LG_Initialize, when called while
\* the framework is uninitialized or with a null window/widget handle,
\* changes no toolkit state and returns its sentinel (null from the Create*
\* calls, -1 from LG_GetWidgetText, false from LG_ProcessEvents); it never
\* invokes a callback or the platform backend.
C26_UninitializedOrNullDoesNothing ==
    (fault = {} /\ pump.pc = "idle" /\ run.pc = "none") =>
        /\ WidgetCallsDoNothing(State, NULL)
        /\ WindowCallsDoNothing(State, NULL)
        /\ ~g_initialized =>
               /\ \A d \in handles.widgets : WidgetCallsDoNothing(State, d)
               /\ \A w \in handles.windows : WindowCallsDoNothing(State, w)
               /\ GlobalCallsDoNothing(State, pump)

WidgetTypes == {LG_WIDGET_BUTTON, LG_WIDGET_LABEL, LG_WIDGET_TEXTFIELD}

\* Widget d of state H is as LG_Create<type> leaves it for window w and text.
AsCreated(H, d, type, w, text) ==
    /\ H.widget[d].type = type
    /\ H.widget[d].window = w
    /\ H.widget[d].rect = WidgetRect
    /\ H.widget[d].visible /\ H.widget[d].enabled
    /\ H.widget[d].text_color = LG_COLOR_BLACK
    /\ H.widget[d].bg_color = IF type = LG_WIDGET_LABEL THEN LG_COLOR_TRANSPARENT
                              ELSE LG_COLOR_WHITE
    /\ H.widget[d].text = IF text = NoText THEN "" ELSE text

\* C27: a successful widget creation yields a widget of the requested type
\* whose back-reference is the given window, with the given rect, visible
\* and enabled both true, black text colour, and background white for
\* Button/TextField and transparent for Label; LG_CreateButton and
\* LG_CreateLabel with null text return null and change nothing, while
\* LG_CreateTextField with null text succeeds with the empty string as text.
C27_CreatedWidgetFields ==
    (fault = {} /\ g_initialized) =>
        \A type \in WidgetTypes, w \in handles.windows, text \in NewTexts,
           fail \in WidgetFailures :
            Live(w) =>
                LET C == LG_CreateWidget(State, type, w, text, fail)
                IN IF text = NoText /\ type # LG_WIDGET_TEXTFIELD
                   THEN C.ret = NULL /\ C.H = State
                   ELSE /\ C.ret # NULL => AsCreated(C.H, C.ret, type, w, text)
                        /\ fail = "none" => C.ret # NULL

\* C27 witness: a label and a text field have been created on a live window,
\* the text field with the empty text that a null text gives.
C27_Witness ==
    /\ fault = {}
    /\ g_initialized
    /\ \E d, e \in handles.widgets :
          /\ IsLiveWidget(d) /\ IsLiveWidget(e)
          /\ widget[d].type = LG_WIDGET_LABEL
          /\ widget[e].type = LG_WIDGET_TEXTFIELD /\ widget[e].text = ""
          /\ Live(widget[d].window)
          /\ Live(widget[e].window)

\* C28: growing a window's widget collection past its capacity (initially
\* 20, doubled when full) keeps every previously created widget: after the
\* (capacity+1)-th successful creation all earlier handles are still in the
\* collection, in the same positions, with unchanged fields, and the new
\* widget is appended last.
C28_GrowthKeepsWidgets ==
    (fault = {} /\ g_initialized) =>
        \A type \in WidgetTypes, w \in handles.windows, text \in NewTexts,
           fail \in WidgetFailures :
            (Live(w) /\ Len(window[w].widgets) = window[w].capacity) =>
                LET C == LG_CreateWidget(State, type, w, text, fail)
                IN C.ret # NULL =>
                       /\ C.H.window[w].widgets = Append(window[w].widgets, C.ret)
                       /\ C.H.window[w].capacity = 2 * window[w].capacity
                       /\ \A d \in 1..Len(widget) : C.H.widget[d] = widget[d]

\* The native control of widget d exists in the window system of H.
NativeControlExists(H, d) ==
    IF H.platform = "win32" THEN \E c \in H.win32.hwnds : c[1] = H.widget[d].data.hwnd
    ELSE \E c \in H.xwindows : c[1] = H.widget[d].data.window

\* The collection new is old with the last element moved into the slot of d.
LastMovedIntoSlot(old, new, d) ==
    /\ Len(new) = Len(old) - 1
    /\ \E i \in 1..Len(old) :
          /\ old[i] = d
          /\ \A j \in 1..Len(new) : new[j] = IF j = i THEN old[Len(old)] ELSE old[j]
    /\ \A e \in SeqToSet(old) \ {d} : Occurrences(new, e) = 1
    /\ Occurrences(new, d) = 0

\* C29: LG_DestroyWidget on a live widget w of window W tears down w's
\* platform payload and removes w from W's collection by moving the last
\* element into w's slot: W's count drops by exactly one, every other widget
\* of W is still present exactly once, and the collections of all other
\* windows and the registry are unchanged.
C29_DestroyWidgetSwapsLast ==
    (fault = {} /\ g_initialized) =>
        \A d \in handles.widgets :
            (IsLiveWidget(d) /\ Live(widget[d].window)) =>
                LET W == widget[d].window
                    R == LG_DestroyWidget(State, d)
                IN /\ R.fault = {}
                   /\ <<"WidgetData", d>> \notin R.alloc
                   /\ ~NativeControlExists(R, d)
                   /\ LastMovedIntoSlot(window[W].widgets, R.window[W].widgets, d)
                   /\ \A v \in 1..Len(window) :
                         v # W => R.window[v].widgets = window[v].widgets
                   /\ R.g_windows = g_windows

\* The native control of widget d in state H agrees with the logical widget
\* on position and size, visibility, enabled state and text.
InAccord(H, d) ==
    /\ H.widget[d].native.rect = H.widget[d].rect
    /\ H.widget[d].native.shown = H.widget[d].visible
    /\ H.widget[d].native.enabled = H.widget[d].enabled
    /\ H.widget[d].native.texts = Glyphs(H.widget[d].text)

\* The logical field named by property p of widget d in state H has the
\* value of p.
FieldIs(H, d, p) ==
    CASE p[1] = "position" -> H.widget[d].rect.x = p[2][1] /\ H.widget[d].rect.y = p[2][2]
      [] p[1] = "size" -> /\ H.widget[d].rect.width = p[2][1]
                          /\ H.widget[d].rect.height = p[2][2]
      [] p[1] = "visible" -> H.widget[d].visible = p[2]
      [] p[1] = "enabled" -> H.widget[d].enabled = p[2]
      [] p[1] = "bg_color" -> H.widget[d].bg_color = p[2]
      [] p[1] = "text_color" -> H.widget[d].text_color = p[2]

\* The steps that can fail in a setter on the backend in use.
FailuresHere == IF platform = "win32" THEN SetterFailures ELSE SetterFailures \ {"text_wide"}

\* C30: after every LG_SetWidgetText/Position/Size/Visible/Enabled/
\* BackgroundColor/TextColor call on a live widget, the logical field is
\* updated and the backend is asked to resynchronise, after which the native
\* representation agrees with the logical widget on position, size,
\* visibility, enabled state and text, on both backends.
C30_NativeFollowsLogical ==
    (fault = {} /\ g_initialized) =>
        \A d \in handles.widgets :
            (IsLiveWidget(d) /\ Live(widget[d].window)) =>
                /\ \A text \in NewTexts \ {NoText}, fail \in FailuresHere :
                      LET S == LG_SetWidgetText(State, d, text, fail)
                      IN S.widget[d].text = text /\ InAccord(S, d)
                /\ \A p \in Properties, fail \in FailuresHere \ {"text"} :
                      LET S == LG_SetWidget(State, d, p[1], p[2], fail)
                      IN FieldIs(S, d, p) /\ InAccord(S, d)

\* C31: LG_CreateWindow followed immediately by LG_DestroyWindow on the
\* returned handle, with no LG_ShowWindow in between, invokes no event
\* callback (the new window has none and the calls leave the pump and the
\* queued native events as they were) and returns the registry count and
\* contents to what they were before the creation.
C31_CreateThenDestroy ==
    (fault = {} /\ g_initialized) =>
        \A fail \in WindowFailures, ownfont \in BOOLEAN :
            LET C == LG_CreateWindow(State, fail, ownfont)
            IN (C.ret # NULL /\ C.H.fault = {}) =>
                   LET R == LG_DestroyWindow(C.H, C.ret)
                   IN /\ R.fault = {}
                      /\ C.H.window[C.ret].event_callback = NULL
                      /\ ~C.H.window[C.ret].visible
                      /\ R.xqueue = xqueue
                      /\ R.win32.queue = win32.queue
                      /\ R.g_windows.windows = g_windows.windows
                      /\ <<"Window", C.ret>> \notin R.alloc

\* C31 witness: a window that was created and destroyed without ever being
\* shown, in a framework that is still initialized.
C31_Witness ==
    /\ fault = {}
    /\ g_initialized
    /\ \E w \in handles.windows :
          /\ ~Allocated("Window", w)
          /\ ~window[w].visible
          /\ w \notin Registry

\* The native event the loop takes next, and whether it is a pointer move.
NextNative == IF platform = "win32" THEN Head(win32.queue) ELSE Head(xqueue)

NativePending == IF platform = "win32" THEN win32.queue # <<>> ELSE xqueue # <<>>

IsMove(e) == IF platform = "win32" THEN e.message = "WM_MOUSEMOVE" ELSE e.type = "MotionNotify"

\* The position a native pointer move carries.
MovePosition(e) == IF platform = "win32" THEN e.lparam ELSE <<e.x, e.y>>

\* The loop takes a pointer move from the queue in this step.
TakesMove == pump.pc = "loop" /\ NativePending /\ IsMove(NextNative)

\* A mouse-move event given to a callback has the position of the native
\* move just taken, its deltas are that position minus the stored last
\* position, and the stored last position becomes that position.
MoveCarriesDelta ==
    (pump.pc = "loop" /\ pump'.pc = "callback"
        /\ pump'.current.type = LG_EVENT_MOUSE_MOVE) =>
        /\ TakesMove
        /\ <<pump'.current.x, pump'.current.y>> = MovePosition(NextNative)
        /\ pump'.current.delta_x = pump'.current.x - pump.last[1]
        /\ pump'.current.delta_y = pump'.current.y - pump.last[2]
        /\ pump'.last = <<pump'.current.x, pump'.current.y>>

\* The stored last position changes only when a pointer move is taken, to
\* the position of that move.
LastIsPreviousMove ==
    pump'.last # pump.last => TakesMove /\ pump'.last = MovePosition(NextNative)

\* C32: every mouse-move event carries delta_x/delta_y equal to its absolute
\* x/y minus the x/y of the previous mouse-move event processed anywhere in
\* the process (initially 0,0), irrespective of which window or widget
\* either move belonged to, and the stored last position is then set to the
\* event's x/y.
C32_MouseMoveDelta ==
    /\ pump.last = <<0, 0>>
    /\ [][MoveCarriesDelta]_vars
    /\ [][LastIsPreviousMove]_vars

\* C32 witness: the callback of the second window is given a mouse-move
\* event whose deltas differ from its position, a move having been processed
\* before it.
C32_Witness ==
    /\ fault = {}
    /\ pump.pc = "callback"
    /\ pump.current.type = LG_EVENT_MOUSE_MOVE
    /\ pump.window = 2
    /\ <<pump.current.delta_x, pump.current.delta_y>> # <<pump.current.x, pump.current.y>>
    /\ <<pump.current.delta_x, pump.current.delta_y>> # <<0, 0>>

\* The native control the click in hand was made on, and where in it.
ClickedControl == IF platform = "win32" THEN pump.event.lparam[1] ELSE pump.event.window

ClickPosition == IF platform = "win32" THEN pump.event.click ELSE <<pump.event.x, pump.event.y>>

ControlOf(d) == IF platform = "win32" THEN widget[d].data.hwnd ELSE widget[d].data.window

\* C33: the two backends deliver the same widget-clicked payload for the
\* same click: on X11 and on Win32 alike, a widget-clicked event carries the
\* clicked widget's handle and the x/y coordinates of the click itself.
C33_SameClickPayload ==
    (fault = {} /\ pump.pc = "callback"
        /\ pump.current.type = LG_EVENT_WIDGET_CLICKED) =>
        /\ pump.current.widget # NULL
        /\ ControlOf(pump.current.widget) = ClickedControl
        /\ <<pump.current.x, pump.current.y>> = ClickPosition

\* The native event in hand is a press of the left button (X11), or the
\* click notification of a control (Win32).
IsLeftPress ==
    IF platform = "win32"
    THEN pump.event.message = "WM_COMMAND" /\ pump.event.notification = "BN_CLICKED"
    ELSE pump.event.type = "ButtonPress" /\ pump.event.button = 1

\* C34: a widget-clicked event is produced only for a click on a widget of
\* type Button: a left press on a Label or TextField yields no
\* widget-clicked event on either backend, and a release or a non-left press
\* never yields one.
C34_ClickedOnlyForButtons ==
    (fault = {} /\ pump.pc = "callback"
        /\ pump.current.type = LG_EVENT_WIDGET_CLICKED) =>
        /\ IsLeftPress
        /\ widget[pump.current.widget].type = LG_WIDGET_BUTTON

\* The size a native resize notification carries.
NewSize(e) == IF platform = "win32" THEN e.lparam ELSE <<e.width, e.height>>

\* The loop takes a resize notification from the queue in this step.
TakesResize == pump.pc = "loop" /\ NativePending /\ IsResize(NextNative)

\* The native window id belongs to the control of a widget.
IsControl(id) ==
    \E d \in 1..Len(widget) : widget[d].platform_data # NULL /\ ControlOf(d) = id

\* A window-resize event given to a callback carries the size of the
\* notification just taken, which is addressed to the window of the callback,
\* and the logical size of that window is already that size.
ResizeCarriesStoredSize ==
    (pump.pc = "loop" /\ pump'.pc = "callback"
        /\ pump'.current.type = LG_EVENT_WINDOW_RESIZE) =>
        /\ TakesResize
        /\ GetNative(pump'.window) = Addressee(NextNative)
        /\ <<pump'.current.width, pump'.current.height>> = NewSize(NextNative)
        /\ window'[pump'.window].width = pump'.current.width
        /\ window'[pump'.window].height = pump'.current.height

\* A resize notification addressed to a live top-level window with a callback
\* is dispatched to it.
ResizeIsDispatched ==
    (TakesResize /\ pump'.native = pump.native + 1 /\ fault' = {}
        /\ \E w \in handles.windows :
              /\ Live(w) /\ w \in Registry /\ window[w].event_callback # NULL
              /\ GetNative(w) = Addressee(NextNative)) =>
        pump'.pc = "callback" /\ pump'.current.type = LG_EVENT_WINDOW_RESIZE

\* A size notification addressed to the sub-window of a widget changes no
\* window and calls no callback.
ControlResizeIsDropped ==
    (TakesResize /\ pump'.native = pump.native + 1
        /\ IsControl(Addressee(NextNative))) =>
        window' = window /\ pump'.pc = "loop" /\ pump'.calls = pump.calls

\* C35: when a native resize notification for a top-level window is
\* processed, the window's logical width and height are set to the new size
\* before the callback runs, and the window-resize event delivered carries
\* exactly those same width and height; a size notification addressed to a
\* widget's sub-window changes no window size and dispatches no event.
C35_ResizeStoredThenDelivered ==
    /\ [][ResizeCarriesStoredSize]_vars
    /\ [][ResizeIsDispatched]_vars
    /\ [][ControlResizeIsDropped]_vars

\* C35 witness: in one pump a resize of a top-level window has been stored
\* and given to its callback, and the loop is about to take a size
\* notification addressed to the sub-window of a widget.
C35_Witness ==
    /\ fault = {}
    /\ TakesResize
    /\ IsControl(Addressee(NextNative))
    /\ pump.calls > 0
    /\ \E w \in handles.windows : <<window[w].width, window[w].height>> \in Sizes

\* The capacities a list that starts at `first` and only doubles can have.
MaxDoublings == MaxNewWindows + MaxNewWidgets

Doubled(first) == {first * 2^k : k \in 0..MaxDoublings}

RegistryWithinCapacity ==
    /\ Len(g_windows.windows) <= g_windows.capacity
    /\ g_windows.capacity \in Doubled(WINDOW_LIST_CAPACITY)

CollectionWithinCapacity(w) ==
    /\ Len(window[w].widgets) <= window[w].capacity
    /\ window[w].capacity \in Doubled(WIDGET_LIST_CAPACITY)

\* One step of a list from (count, capacity) to (count2, capacity2): the
\* capacity is kept, or doubled by an insertion that found the list full.
GrowsOnlyWhenFull(count, capacity, count2, capacity2) ==
    \/ capacity2 = capacity
    \/ /\ capacity2 = 2 * capacity
       /\ count = capacity
       /\ count2 = count + 1

CapacitiesStep ==
    (fault = {} /\ fault' = {} /\ g_initialized /\ g_initialized') =>
        /\ GrowsOnlyWhenFull(Len(g_windows.windows), g_windows.capacity,
                             Len(g_windows'.windows), g_windows'.capacity)
        /\ \A w \in handles.windows :
              (<<"Window", w>> \in alloc /\ <<"Window", w>> \in alloc') =>
                  GrowsOnlyWhenFull(Len(window[w].widgets), window[w].capacity,
                                    Len(window'[w].widgets), window'[w].capacity)

CapacitiesHold ==
    (fault = {} /\ g_initialized) =>
        /\ RegistryWithinCapacity
        /\ \A w \in handles.windows : Allocated("Window", w) => CollectionWithinCapacity(w)

\* C36: in every state of an initialized framework the registry holds at
\* most `capacity` windows with capacity = 10 * 2^k and every live window's
\* widget collection holds at most `capacity` widgets with capacity =
\* 20 * 2^k; no step shrinks a capacity, and a capacity changes only by a
\* doubling in an insertion that found count = capacity.
C36_CapacitiesDoubleWhenFull == []CapacitiesHold /\ [][CapacitiesStep]_vars

\* C36 witness: a registry and a widget collection that have grown.
C36_Witness ==
    /\ fault = {}
    /\ g_initialized
    /\ \/ /\ g_windows.capacity = 2 * WINDOW_LIST_CAPACITY
          /\ Len(g_windows.windows) = WINDOW_LIST_CAPACITY + 1
       \/ \E w \in handles.windows :
             /\ Allocated("Window", w)
             /\ window[w].capacity = 2 * WIDGET_LIST_CAPACITY
             /\ Len(window[w].widgets) = WIDGET_LIST_CAPACITY + 1

\* A step in which the loop body calls a callback.
CallbackCalled == pump'.pc = "callback" /\ pump'.seen # pump.seen

\* C37: no event is dispatched to a window after that window has been
\* destroyed, even when the callback destroys its own window while handling
\* an event: every call of a callback is for a window whose memory is still
\* allocated, so the mouse-button event of a click is not delivered once the
\* callback has destroyed the window in the widget-clicked event of that click.
C37_NoEventAfterDestroy ==
    [][CallbackCalled => <<"Window", pump'.current.window>> \in alloc']_vars

\* LG_QuitEventLoop has been called; LG_Run is in progress.
QuitCalled == budget.calls < QuitCalls

InRun == run.pc # "none"

\* C38: after LG_QuitEventLoop has been called (for example from an event
\* callback during LG_Run), LG_Run eventually returns.
C38_QuitEndsRun == (QuitCalled /\ InRun) ~> ~InRun

\* LG_DestroyWindow on a live window leaves the quit request posted.
DestroyPostsQuit ==
    (fault = {} /\ g_initialized /\ platform = "win32") =>
        \A w \in handles.windows :
            Live(w) => LG_DestroyWindow(State, w).win32.quit

\* With the quit request posted the loop returns only with false, and when it
\* takes WM_QUIT it returns at once: no callback is called and the input
\* messages stay in the queue, whatever the registry holds.
QuitEndsPump ==
    (fault = {} /\ platform = "win32" /\ pump.pc = "loop" /\ win32.quit) =>
        LET C == PlatformProcessEvents(State, pump)
        IN /\ C.P.pc = "idle" => ~C.ret
           /\ QuitSignalled =>
                 /\ ~C.ret
                 /\ C.P.pc = "idle"
                 /\ C.H.win32.queue = win32.queue
                 /\ C.H.g_windows = g_windows

\* In LG_Run the pump that takes WM_QUIT clears `running`, and after the
\* render loop and the sleep LG_Run returns.
QuitEndsRun ==
    /\ (run.pc = "events" /\ run'.pc = "render" /\ QuitSignalled) => ~run'.running
    /\ (run.pc = "sleep" /\ ~run.running /\ run' # run) => run'.pc = "none"

\* C39: on the Win32 backend, destroying any single window posts the
\* application-quit signal, so a later LG_ProcessEvents returns false and
\* LG_Run ends even while other windows are still live in the registry; the
\* native messages queued behind the quit message are not processed by that
\* pump.
C39_DestroyQuitsWin32 == [](DestroyPostsQuit /\ QuitEndsPump) /\ [][QuitEndsRun]_vars

\* C39 witness: LG_Run has returned after one of two windows was destroyed;
\* the other window is still live in the registry and an input message is
\* still queued.
C39_Witness ==
    /\ fault = {}
    /\ platform = "win32"
    /\ run.pc = "none" /\ ~run.running
    /\ \E w \in handles.windows : DestroyedWindow(w)
    /\ \E w \in Registry : Live(w)
    /\ win32.queue # <<>>

====
